---- MODULE Spec2Model ----
(***************************************************************************)
(* Message-persistence core of the chat platform: shard routing            *)
(* (database.PostgresDB), idempotent create and paginated history          *)
(* (chat.Repository), and the operations of chat.Service built on them.    *)
(*                                                                         *)
(* Go strings are modelled as sequences of bytes where the code looks at   *)
(* their bytes (routing keys, cursors) and as TLA+ strings where it only   *)
(* compares them.  A Go pointer that may be nil (to string, time.Time) is  *)
(* a sequence of length 0 (nil) or 1.  A uint32 is a record of its two     *)
(* 16-bit halves, since the model's integers are 32-bit signed.            *)
(***************************************************************************)
EXTENDS Integers, Sequences, FiniteSets, TLC

VARIABLES
    shards,     \* PostgresDB.shards
    store,      \* the messages table of every database a pool is connected to
    calls,      \* the CreateMessage calls: position, request, result
    reader,     \* the GetMessageHistory call: position, request, locals, result
    walk,       \* a client following next_cursor through a channel's history
    route,      \* the last GetShard call: key, hash, index
    routePrev,  \* an earlier GetShard call
    channels,   \* the channels table: the identifiers of its rows
    members,    \* the channel_members table: its (channel_id, user_id) rows
    users,      \* the users table: the identifiers of its rows
    svc,        \* the chat.Service call: position, request, result, effects
    boot,       \* the chat-service process: position in main, state of the pools
    discovery,  \* MemoryDiscovery.services: the instances of every service name
    lb,         \* LoadBalancer: counter, mutex, the GetInstance calls
    checker,    \* health.Checker: checks, and the Check call with its goroutines
    codec       \* a cursor encoded, decoded and compared with a creation time

vars == <<shards, store, calls, reader, walk, route, routePrev,
          channels, members, users, svc, boot, discovery, lb, checker, codec>>

(***************************************************************************)
(* Bounds of the model                                                     *)
(***************************************************************************)
MaxKeyLen == 2      \* longest routing key drawn in the routing specification
MaxMsgs == 3        \* most rows the messages table holds
MaxTime == 2        \* number of distinct clock readings
TimeBase == 9       \* first clock reading (so that readings have 1 and 2 digits)
NumCallers == 2     \* concurrent CreateMessage calls
MaxInstances == 2   \* most instances registered under one service name
MaxRoutedRows == 2   \* rows stored while shard routing is observed
MaxPicks == 4       \* most values the counter of the load balancer takes

ShardCount == 3
DefaultLimit == 50
MaxLimit == 100

Times == TimeBase..(TimeBase + MaxTime - 1)
Callers == 1..NumCallers

Nil == <<>>
Ptr(x) == <<x>>

(***************************************************************************)
(* hash/fnv New32a, Write, Sum32 on a uint32 kept as two 16-bit halves     *)
(***************************************************************************)
RECURSIVE XorBits(_, _, _)
XorBits(a, b, n) ==
    IF n = 0 THEN 0
    ELSE (((a % 2) + (b % 2)) % 2) + (2 * XorBits(a \div 2, b \div 2, n - 1))

\* offset32 = 2166136261 = 0x811C9DC5
FnvOffset32 == [hi |-> 33052, lo |-> 40389]

\* hash ^= uint32(c); hash *= prime32, with prime32 = 16777619 = 2^24 + 403
FnvStep(h, c) ==
    LET x  == ((h.lo \div 256) * 256) + XorBits(h.lo % 256, c, 8)
        pl == x * 403
    IN  [hi |-> ((h.hi * 403) + (pl \div 65536) + ((x % 256) * 256)) % 65536,
         lo |-> pl % 65536]

RECURSIVE FnvWrite(_, _)
FnvWrite(h, data) ==
    IF data = <<>> THEN h ELSE FnvWrite(FnvStep(h, Head(data)), Tail(data))

Fnv32a(key) == FnvWrite(FnvOffset32, key)

(***************************************************************************)
(* Go integers: int(x) of a uint32 and the remainder operator %            *)
(***************************************************************************)
\* 2^32 - h, for h > 0
Negated32(h) ==
    IF h.lo = 0 THEN [hi |-> 65536 - h.hi, lo |-> 0]
    ELSE [hi |-> 65535 - h.hi, lo |-> 65536 - h.lo]

\* int is 32 bits wide: values with the top bit set wrap to negative
IntOfUint32Narrow(h) ==
    IF h.hi >= 32768 THEN [neg |-> TRUE, mag |-> Negated32(h)]
    ELSE [neg |-> FALSE, mag |-> h]

\* int is 64 bits wide: every uint32 value converts unchanged
IntOfUint32(h) == [neg |-> FALSE, mag |-> h]

\* x % n truncates toward zero: the result has the sign of x
GoRem(x, n) ==
    LET r == (((x.mag.hi % n) * (65536 % n)) + (x.mag.lo % n)) % n
    IN  IF x.neg THEN 0 - r ELSE r

(***************************************************************************)
(* PostgresDB.GetShard and its callers                                     *)
(***************************************************************************)
\* a routing that spreads the load: the index the hash gives, moved on by
\* the number of rows the messages table holds when the call is made
ShardIndexByRows(key) ==
    IF shards = 1 THEN 0
    ELSE LET rows == Len(store[CHOOSE d \in DOMAIN store : TRUE])
         IN  (GoRem(IntOfUint32(Fnv32a(key)), shards) + rows) % shards

ShardIndex(key) ==
    IF shards = 1 THEN 0
    ELSE GoRem(IntOfUint32(Fnv32a(key)), shards)

\* db.pools[shardIndex]: an index outside the slice panics
GetShard(key) ==
    LET i == ShardIndex(key)
    IN  IF i \in 0..(shards - 1) THEN [ok |-> TRUE, pool |-> i]
        ELSE [ok |-> FALSE, pool |-> i]

GetShardFirstPool(channelID) == [ok |-> TRUE, pool |-> 0]

GetShardByChannelID(channelID) == GetShard(channelID)

GetShardByUserID(userID) == GetShard(userID)

\* NewPostgreDB opens every pool on cfg.DatabaseURL(): all pools are
\* connected to the one configured database
PoolDatabase(i) == "chatdb"

Databases == {PoolDatabase(i) : i \in 0..(ShardCount - 1)}

(***************************************************************************)
(* Requests and rows                                                       *)
(***************************************************************************)
\* channel identifiers "c1" and "c3" as bytes
ChannelIDs == {<<99, 49>>, <<99, 51>>}

\* the users with a row in users: "u1", member of both channels, and "u2"
UserIDs == {"u1", "u2"}

NoSendRequest ==
    [ChannelID |-> <<>>, UserID |-> "", Content |-> "",
     IdempotencyKey |-> "", MessageType |-> ""]

\* SendMessageRequest values of concurrent callers
SendRequests ==
    [ChannelID : ChannelIDs, UserID : {"u1"}, Content : {"hi"},
     IdempotencyKey : {"", "k1", "k2"}, MessageType : {""}]

\* SendMessageRequest values of one caller at a time
SeqSendRequests ==
    [ChannelID : ChannelIDs, UserID : {"u1"}, Content : {"hi", "yo"},
     IdempotencyKey : {"", "k1", "k2"}, MessageType : {""}]

\* SendMessageRequest values with and without a message type
TypedSendRequests ==
    [ChannelID : {<<99, 49>>}, UserID : {"u1"}, Content : {"hi"},
     IdempotencyKey : {"", "k1"}, MessageType : {"", "image"}]

\* the messages table a pool reads and writes
Table(pool) == store[PoolDatabase(pool)]

(***************************************************************************)
(* The errors of the database driver and of the database.  Every query is  *)
(* given whether the database answers it (up); the identifier columns are  *)
(* of type UUID, which the empty string is not.                            *)
(***************************************************************************)
ErrNoRows == "sql: no rows in result set"
StorageDown == "connection refused"
InvalidUUID == "invalid input syntax for type uuid"
UniqueViolationError == "unique_violation"
ForeignKeyViolationError == "foreign_key_violation"

\* the error of a query the database does not answer or cannot parse
QueryFailure(up, emptyID) ==
    IF ~up THEN StorageDown ELSE IF emptyID THEN InvalidUUID ELSE ""

(***************************************************************************)
(* Repository.getMessageByIdempotencyKey                                   *)
(***************************************************************************)
\* a lookup that compares the key with the wrong column never finds a row
getMessageByIdempotencyKeyMiss(pool, idempotencyKey, up) ==
    IF ~up THEN [message |-> Nil, err |-> StorageDown]
    ELSE [message |-> Nil, err |-> ErrNoRows]

\* lines 83-110: QueryRow(... WHERE idempotency_key = $1).Scan: the first
\* row, sql.ErrNoRows when there is none, the error of the driver otherwise
getMessageByIdempotencyKey(pool, idempotencyKey, up) ==
    LET KeyIs(m) == m.idempotency_key = Ptr(idempotencyKey)
        found == SelectSeq(Table(pool), KeyIs)
    IN  IF ~up THEN [message |-> Nil, err |-> StorageDown]
        ELSE IF found = <<>> THEN [message |-> Nil, err |-> ErrNoRows]
        ELSE [message |-> Ptr(Head(found)), err |-> ""]

(***************************************************************************)
(* The constraints of the messages table (init.sql lines 37-46)            *)
(***************************************************************************)
\* a column declared without UNIQUE accepts every row
UniqueViolationNever(table, idempotencyKey) == FALSE

\* a constraint under which two NULL keys conflict like two equal keys
UniqueViolationOfNulls(table, idempotencyKey) ==
    \E i \in 1..Len(table) : table[i].idempotency_key = idempotencyKey

\* idempotency_key VARCHAR(255) UNIQUE: NULL keys never conflict; a non-NULL
\* key conflicts with an equal one
UniqueViolation(table, idempotencyKey) ==
    /\ idempotencyKey # Nil
    /\ \E i \in 1..Len(table) : table[i].idempotency_key = idempotencyKey

\* channel_id REFERENCES channels(id), user_id REFERENCES users(id)
ForeignKeyViolation(channelID, userID) ==
    channelID \notin channels \/ userID \notin users

(***************************************************************************)
(* Repository.CreateMessage: the lookup by key, then the INSERT            *)
(***************************************************************************)
\* the type of the request stored as it is, empty or not
MessageTypeAsGiven(messageType) == messageType

\* lines 33-37: messageType := req.MessageType; if empty, "text"
DefaultMessageType(messageType) ==
    IF messageType = "" THEN "text" ELSE messageType

IdleCall ==
    [pc |-> "idle", req |-> NoSendRequest, pool |-> 0, messageType |-> "",
     ret |-> Nil, err |-> "", found |-> FALSE]

\* lines 30-49: resolve the pool, default the type, look the key up (up
\* tells whether the database answers the lookup; a request without a key
\* makes none); an error of the lookup other than no rows is returned, a row
\* found is returned, and found tells that the call returned it at line 47
CreateCheck(p, req, up) ==
    /\ calls[p].pc = "idle"
    /\ LET shard == GetShardByChannelID(req.ChannelID)
           messageType == DefaultMessageType(req.MessageType)
           existing == IF req.IdempotencyKey # ""
                       THEN getMessageByIdempotencyKey(shard.pool,
                                                       req.IdempotencyKey, up)
                       ELSE [message |-> Nil, err |-> ""]
           call == [IdleCall EXCEPT !.req = req, !.pool = shard.pool,
                                    !.messageType = messageType]
       IN  calls' = [calls EXCEPT ![p] =
              IF ~shard.ok
              THEN [call EXCEPT !.pc = "done", !.err = "panic: index out of range"]
              ELSE IF existing.err # "" /\ existing.err # ErrNoRows
              THEN [call EXCEPT !.pc = "done",
                                !.err = "failed to check idempotency key: "
                                            \o existing.err]
              ELSE IF existing.message # Nil
              THEN [call EXCEPT !.pc = "done", !.ret = existing.message,
                                !.found = TRUE]
              ELSE [call EXCEPT !.pc = "insert"]]
    /\ UNCHANGED <<codec, discovery, lb, checker, boot, channels, members, users, svc, shards, store, reader, walk, route, routePrev>>

\* an INSERT that writes its row over every row of the table
CreateInsertReplacing(p, up) ==
    /\ calls[p].pc = "insert"
    /\ LET c == calls[p]
           db == PoolDatabase(c.pool)
           table == store[db]
       IN  /\ Len(table) < MaxMsgs
           /\ \E now \in Times :
                LET message ==
                      [id |-> <<Len(table) + 1>>,
                       channel_id |-> c.req.ChannelID,
                       user_id |-> c.req.UserID,
                       content |-> c.req.Content,
                       message_type |-> c.messageType,
                       created_at |-> now,
                       updated_at |-> now,
                       idempotency_key |-> Nil]
                IN  /\ store' = [store EXCEPT ![db] =
                          [i \in 1..(Len(table) + 1) |-> message]]
                    /\ calls' = [calls EXCEPT ![p] =
                          [c EXCEPT !.pc = "done", !.ret = Ptr(message)]]
    /\ UNCHANGED <<codec, discovery, lb, checker, boot, channels, members, users, svc, shards, reader, walk, route, routePrev>>

\* the error of the INSERT of lines 51-73, "" when the row is stored: the
\* database does not answer, an identifier is not a UUID, the key is that of
\* a stored row (checked when the row enters the index), the channel or the
\* user has no row (checked when the statement ends)
InsertError(table, req, idempotencyKey, up) ==
    LET failure == QueryFailure(up, req.ChannelID = <<>> \/ req.UserID = "")
    IN  IF failure # "" THEN failure
        ELSE IF UniqueViolation(table, idempotencyKey) THEN UniqueViolationError
        ELSE IF ForeignKeyViolation(req.ChannelID, req.UserID)
        THEN ForeignKeyViolationError
        ELSE ""

\* lines 51-80: INSERT ... VALUES (..., NOW(), NOW()) RETURNING ..., or its
\* error and no row; created_at counts the microseconds of the clock of the
\* database
CreateInsert(p, up) ==
    /\ calls[p].pc = "insert"
    /\ LET c == calls[p]
           db == PoolDatabase(c.pool)
           table == store[db]
           idempotencyKey == IF c.req.IdempotencyKey # ""
                             THEN Ptr(c.req.IdempotencyKey) ELSE Nil
           err == InsertError(table, c.req, idempotencyKey, up)
       IN  IF err # ""
           THEN /\ calls' = [calls EXCEPT ![p] =
                      [c EXCEPT !.pc = "done",
                                !.err = "failed to create message: " \o err]]
                /\ UNCHANGED store
           ELSE /\ Len(table) < MaxMsgs
                /\ \E now \in Times :
                     LET message ==
                           [id |-> <<Len(table) + 1>>,
                            channel_id |-> c.req.ChannelID,
                            user_id |-> c.req.UserID,
                            content |-> c.req.Content,
                            message_type |-> c.messageType,
                            created_at |-> now,
                            updated_at |-> now,
                            idempotency_key |-> idempotencyKey]
                     IN  /\ store' = [store EXCEPT ![db] = Append(table, message)]
                         /\ calls' = [calls EXCEPT ![p] =
                               [c EXCEPT !.pc = "done", !.ret = Ptr(message)]]
    /\ UNCHANGED <<codec, discovery, lb, checker, boot, channels, members, users, svc, shards, reader, walk, route, routePrev>>

\* the call returns to its caller, which may call again
CreateReturn(p) ==
    /\ calls[p].pc = "done"
    /\ calls' = [calls EXCEPT ![p] = IdleCall]
    /\ UNCHANGED <<codec, discovery, lb, checker, boot, channels, members, users, svc, shards, store, reader, walk, route, routePrev>>

(***************************************************************************)
(* int64: a sign and a magnitude of four 16-bit limbs, the least           *)
(* significant first; strconv.FormatInt(i, 10), strconv.ParseInt(s, 10, 64)*)
(***************************************************************************)
Zero64 == [neg |-> FALSE, mag |-> <<0, 0, 0, 0>>]

\* the int64 of an integer of the model, which is below 2^31 in magnitude
Int64(n) ==
    LET a == IF n < 0 THEN 0 - n ELSE n
    IN  [neg |-> n < 0, mag |-> <<a % 65536, a \div 65536, 0, 0>>]

\* the magnitude divided by ten: quotient and remainder, by long division
\* from the most significant limb
DivMod10(mag) ==
    LET r3 == mag[4] % 10
        n2 == (r3 * 65536) + mag[3]
        r2 == n2 % 10
        n1 == (r2 * 65536) + mag[2]
        r1 == n1 % 10
        n0 == (r1 * 65536) + mag[1]
    IN  [q |-> <<n0 \div 10, n1 \div 10, n2 \div 10, mag[4] \div 10>>,
         r |-> n0 % 10]

RECURSIVE FormatUint64(_)
FormatUint64(mag) ==
    LET d == DivMod10(mag)
    IN  IF d.q = Zero64.mag THEN <<48 + d.r>>
        ELSE FormatUint64(d.q) \o <<48 + d.r>>

\* the sign left out of the decimal string
FormatIntUnsigned(x) == FormatUint64(x.mag)

\* strconv.FormatInt(i, 10): "-" and the digits of the magnitude
FormatInt(x) ==
    IF x.neg THEN <<45>> \o FormatUint64(x.mag) ELSE FormatUint64(x.mag)

\* the magnitude times k (k at most 1000) plus a, and whether the result
\* left 64 bits
MulAdd(mag, k, a) ==
    LET n0 == (mag[1] * k) + a
        n1 == (mag[2] * k) + (n0 \div 65536)
        n2 == (mag[3] * k) + (n1 \div 65536)
        n3 == (mag[4] * k) + (n2 \div 65536)
    IN  [mag |-> <<n0 % 65536, n1 % 65536, n2 % 65536, n3 % 65536>>,
         over |-> n3 >= 65536]

IsDigits(s) == s # <<>> /\ \A i \in 1..Len(s) : s[i] \in 48..57

\* strconv.ParseUint(s, 10, 64) on decimal digits
RECURSIVE ParseUint64(_)
ParseUint64(s) ==
    IF s = <<>> THEN [ok |-> TRUE, mag |-> Zero64.mag]
    ELSE LET front == ParseUint64(SubSeq(s, 1, Len(s) - 1))
             next == MulAdd(front.mag, 10, s[Len(s)] - 48)
         IN  IF ~front.ok \/ next.over THEN [ok |-> FALSE, mag |-> Zero64.mag]
             ELSE [ok |-> TRUE, mag |-> next.mag]

\* strconv.ParseInt(s, 10, 64): an optional sign, then decimal digits only,
\* the magnitude below 2^63, or equal to it for a negative number
ParseInt(s) ==
    LET signed == s # <<>> /\ s[1] \in {43, 45}
        neg == signed /\ s[1] = 45
        digits == IF signed THEN Tail(s) ELSE s
        un == IF IsDigits(digits) THEN ParseUint64(digits)
              ELSE [ok |-> FALSE, mag |-> Zero64.mag]
        cutoff == un.mag[4] >= 32768
        least == un.mag = <<0, 0, 0, 32768>>
    IN  IF ~un.ok \/ (cutoff /\ ~(neg /\ least))
        THEN [ok |-> FALSE, value |-> Zero64]
        ELSE [ok |-> TRUE,
              value |-> [neg |-> neg /\ un.mag # Zero64.mag, mag |-> un.mag]]

\* a < b on magnitudes, and on int64
LessMag(a, b) ==
    \E i \in 1..4 : a[i] < b[i] /\ \A j \in (i + 1)..4 : a[j] = b[j]

Less64(a, b) ==
    IF a.neg /\ ~b.neg THEN TRUE
    ELSE IF ~a.neg /\ b.neg THEN FALSE
    ELSE IF a.neg THEN LessMag(b.mag, a.mag)
    ELSE LessMag(a.mag, b.mag)

(***************************************************************************)
(* Times.  A time.Time is its UnixNano count, an int64.  A value of a      *)
(* TIMESTAMP WITH TIME ZONE column is a count of microseconds, an int64    *)
(* (in the messages table of the model, an integer of the model).          *)
(***************************************************************************)
\* 2^64 - mag modulo 2^64: the bits of the negated int64
Negated64(mag) ==
    MulAdd(<<65535 - mag[1], 65535 - mag[2], 65535 - mag[3], 65535 - mag[4]>>,
           1, 1).mag

\* t.UnixNano() of the time.Time a timestamp is scanned into: the
\* microseconds times 1000 in int64 arithmetic, which wraps modulo 2^64
\* for a time whose count of nanoseconds does not fit an int64 (before
\* 1677-09-21T00:12:43.145224192Z or after 2262-04-11T23:47:16.854775807Z)
UnixNano(timestamp) ==
    LET product == MulAdd(timestamp.mag, 1000, 0).mag
        bits == IF timestamp.neg THEN Negated64(product) ELSE product
    IN  IF bits[4] >= 32768 THEN [neg |-> TRUE, mag |-> Negated64(bits)]
        ELSE [neg |-> FALSE, mag |-> bits]

\* the timestamp the driver sends for a time.Time argument:
\* t.Unix()*1000000 + t.Nanosecond()/1000, the microseconds rounded down
Timestamptz(t) ==
    LET d1 == DivMod10(t.mag)
        d2 == DivMod10(d1.q)
        d3 == DivMod10(d2.q)
        exact == d1.r = 0 /\ d2.r = 0 /\ d3.r = 0
        mag == IF t.neg /\ ~exact THEN MulAdd(d3.q, 1, 1).mag ELSE d3.q
    IN  [neg |-> t.neg /\ mag # Zero64.mag, mag |-> mag]

(***************************************************************************)
(* encoding/base64 URLEncoding: alphabet A-Z a-z 0-9 - _ with = padding    *)
(***************************************************************************)
B64Char(v) ==
    IF v < 26 THEN 65 + v
    ELSE IF v < 52 THEN 97 + (v - 26)
    ELSE IF v < 62 THEN 48 + (v - 52)
    ELSE IF v = 62 THEN 45 ELSE 95

\* the 6-bit value of a character, -1 when it is not in the alphabet
B64Value(c) ==
    IF c \in 65..90 THEN c - 65
    ELSE IF c \in 97..122 THEN (c - 97) + 26
    ELSE IF c \in 48..57 THEN (c - 48) + 52
    ELSE IF c = 45 THEN 62
    ELSE IF c = 95 THEN 63 ELSE 0 - 1

RECURSIVE EncodeToString(_)
EncodeToString(src) ==
    IF src = <<>> THEN <<>>
    ELSE IF Len(src) = 1 THEN
        LET v == src[1] * 65536
        IN  <<B64Char(v \div 262144), B64Char((v \div 4096) % 64), 61, 61>>
    ELSE IF Len(src) = 2 THEN
        LET v == (src[1] * 65536) + (src[2] * 256)
        IN  <<B64Char(v \div 262144), B64Char((v \div 4096) % 64),
              B64Char((v \div 64) % 64), 61>>
    ELSE
        LET v == (src[1] * 65536) + (src[2] * 256) + src[3]
        IN  <<B64Char(v \div 262144), B64Char((v \div 4096) % 64),
              B64Char((v \div 64) % 64), B64Char(v % 64)>>
            \o EncodeToString(SubSeq(src, 4, Len(src)))

\* one quantum of four characters; only the last quantum may be padded
DecodeQuantum(q, last) ==
    LET a == B64Value(q[1])
        b == B64Value(q[2])
        c == B64Value(q[3])
        d == B64Value(q[4])
        v == (a * 262144) + (b * 4096)
    IN  IF a < 0 \/ b < 0 THEN [ok |-> FALSE, data |-> <<>>]
        ELSE IF q[3] = 61 THEN
            IF last /\ q[4] = 61
            THEN [ok |-> TRUE, data |-> <<v \div 65536>>]
            ELSE [ok |-> FALSE, data |-> <<>>]
        ELSE IF c < 0 THEN [ok |-> FALSE, data |-> <<>>]
        ELSE IF q[4] = 61 THEN
            IF last
            THEN [ok |-> TRUE,
                  data |-> <<(v + (c * 64)) \div 65536,
                             ((v + (c * 64)) \div 256) % 256>>]
            ELSE [ok |-> FALSE, data |-> <<>>]
        ELSE IF d < 0 THEN [ok |-> FALSE, data |-> <<>>]
        ELSE [ok |-> TRUE,
              data |-> <<(v + (c * 64) + d) \div 65536,
                         ((v + (c * 64) + d) \div 256) % 256,
                         (v + (c * 64) + d) % 256>>]

RECURSIVE DecodeQuanta(_)
DecodeQuanta(s) ==
    IF s = <<>> THEN [ok |-> TRUE, data |-> <<>>]
    ELSE IF Len(s) < 4 THEN [ok |-> FALSE, data |-> <<>>]
    ELSE LET head == DecodeQuantum(SubSeq(s, 1, 4), Len(s) = 4)
             rest == DecodeQuanta(SubSeq(s, 5, Len(s)))
         IN  IF head.ok /\ rest.ok
             THEN [ok |-> TRUE, data |-> head.data \o rest.data]
             ELSE [ok |-> FALSE, data |-> <<>>]

\* carriage returns and line feeds are skipped before decoding
DecodeString(s) ==
    LET NotNewline(c) == c \notin {10, 13}
    IN  DecodeQuanta(SelectSeq(s, NotNewline))

(***************************************************************************)
(* Repository.encodeCursor / decodeCursor                                  *)
(***************************************************************************)
\* lines 401-405
encodeCursor(t) == EncodeToString(FormatInt(t))

\* a decoding that takes what is not a number for the time zero
decodeCursorLenient(cursor) ==
    LET data == DecodeString(cursor)
        timestamp == IF data.ok THEN ParseInt(data.data)
                     ELSE [ok |-> FALSE, value |-> Zero64]
    IN  [ok |-> TRUE, err |-> "", time |-> timestamp.value]

\* lines 408-420
decodeCursor(cursor) ==
    LET data == DecodeString(cursor)
        timestamp == IF data.ok THEN ParseInt(data.data)
                     ELSE [ok |-> FALSE, value |-> Zero64]
    IN  IF ~data.ok
        THEN [ok |-> FALSE, err |-> "invalid cursor encoding", time |-> Zero64]
        ELSE IF ~timestamp.ok
        THEN [ok |-> FALSE, err |-> "invalid cursor timestamp", time |-> Zero64]
        ELSE [ok |-> TRUE, err |-> "", time |-> timestamp.value]

\* the since condition written with >=
AfterSinceInclusive(created_at, since) == ~Less64(created_at, Timestamptz(since))

\* lines 145 and 164: created_at > $n, $n a time.Time
AfterSince(created_at, since) == Less64(Timestamptz(since), created_at)

\* the cursor condition written with <=
BeforeCursorInclusive(created_at, cursorTime) ==
    ~Less64(Timestamptz(cursorTime), created_at)

\* line 138: created_at < $n, $n a time.Time
BeforeCursor(created_at, cursorTime) == Less64(created_at, Timestamptz(cursorTime))

(***************************************************************************)
(* The codec by itself: a time encoded as the cursor of a page, the cursor *)
(* decoded for the next request, and the condition on created_at evaluated *)
(* for a row                                                               *)
(***************************************************************************)
IdleCodec ==
    [pc |-> "idle", t |-> Zero64, cursor |-> <<>>,
     decoded |-> [ok |-> FALSE, err |-> "", time |-> Zero64],
     created |-> Zero64, matches |-> FALSE]

\* part_001 lines 228-231: the cursor of the last message of a page
EncodeCall(t) ==
    /\ codec' = [IdleCodec EXCEPT !.pc = "encoded", !.t = t,
                                  !.cursor = encodeCursor(t)]
    /\ UNCHANGED <<discovery, lb, checker, boot, channels, members, users, svc, shards, store, calls, reader, walk, route, routePrev>>

\* part_001 lines 133-137: the cursor of the next request decoded
DecodeCall ==
    /\ codec.pc = "encoded"
    /\ codec' = [codec EXCEPT !.pc = "decoded",
                              !.decoded = decodeCursor(codec.cursor)]
    /\ UNCHANGED <<discovery, lb, checker, boot, channels, members, users, svc, shards, store, calls, reader, walk, route, routePrev>>

\* part_001 lines 138-139: created_at < $n for a row whose created_at is the
\* timestamp created
CompareCall(created) ==
    /\ codec.pc \in {"decoded", "compared"}
    /\ codec.decoded.ok
    /\ codec' = [codec EXCEPT !.pc = "compared", !.created = created,
                              !.matches = BeforeCursor(created, codec.decoded.time)]
    /\ UNCHANGED <<discovery, lb, checker, boot, channels, members, users, svc, shards, store, calls, reader, walk, route, routePrev>>

(***************************************************************************)
(* Repository.GetMessageHistory                                            *)
(***************************************************************************)
NoHistoryRequest ==
    [ChannelID |-> <<>>, UserID |-> "", Cursor |-> <<>>, Limit |-> 0,
     Since |-> Nil, SinceID |-> <<>>]

\* cursorTime and sinceTime are the locals of those names, failed records
\* which answer of the database was a failure
IdleReader ==
    [pc |-> "idle", req |-> NoHistoryRequest, pool |-> 0, limit |-> 0,
     cursorTime |-> Zero64, sinceTime |-> Nil,
     messages |-> <<>>, hasMore |-> FALSE, nextCursor |-> Nil, total |-> 0,
     err |-> "", failed |-> ""]

\* the clamp written with "limit < 0": a limit of 0 is kept
ClampLimitKeepsZero(limit) ==
    IF limit < 0 \/ limit > MaxLimit THEN DefaultLimit ELSE limit

\* lines 117-120
ClampLimit(limit) ==
    IF limit <= 0 \/ limit > MaxLimit THEN DefaultLimit ELSE limit

\* both branches of the order choice written as DESC
OrderAscendingNever(req) == FALSE

\* lines 174-179: ORDER BY created_at ASC with a since filter, DESC without
OrderAscending(req) == req.Since # Nil \/ req.SinceID # <<>>

\* the condition on the filters dropped: a cursor whenever there is more
IssuesCursorNever(req, hasMore, messages) == FALSE

IssuesCursorAlways(req, hasMore, messages) == hasMore /\ Len(messages) > 0

\* line 228
IssuesCursor(req, hasMore, messages) ==
    hasMore /\ Len(messages) > 0 /\ req.Since = Nil /\ req.SinceID = <<>>

\* a failed query leaves what was read so far to the caller, with no error
HistoryFailedSoftly(r, failure, err) ==
    [r EXCEPT !.pc = "done", !.failed = failure]

\* lines 160, 191-193, 209-211, 215-217, 237-239: return nil,
\* fmt.Errorf(...); the field failed records which answer of the database
\* was the failure
HistoryFailed(r, failure, err) ==
    [IdleReader EXCEPT !.pc = "done", !.req = r.req, !.pool = r.pool,
                       !.limit = r.limit, !.failed = failure, !.err = err]

SinceMessageOfAnyChannel(table, sinceID, channelID, up) ==
    LET failure == QueryFailure(up, sinceID = <<>> \/ channelID = <<>>)
        Is(m) == m.id = sinceID
        found == SelectSeq(table, Is)
    IN  IF failure # "" THEN [time |-> Nil, err |-> failure]
        ELSE IF found = <<>> THEN [time |-> Nil, err |-> ErrNoRows]
        ELSE [time |-> Ptr(UnixNano(Int64(Head(found).created_at))), err |-> ""]

\* lines 153-155: SELECT created_at FROM messages WHERE id = $1 AND
\* channel_id = $2, scanned into a time.Time
SinceMessage(table, sinceID, channelID, up) ==
    LET failure == QueryFailure(up, sinceID = <<>> \/ channelID = <<>>)
        Is(m) == m.id = sinceID /\ m.channel_id = channelID
        found == SelectSeq(table, Is)
    IN  IF failure # "" THEN [time |-> Nil, err |-> failure]
        ELSE IF found = <<>> THEN [time |-> Nil, err |-> ErrNoRows]
        ELSE [time |-> Ptr(UnixNano(Int64(Head(found).created_at))), err |-> ""]

\* lines 113-167: the pool, the limit, the cursor decoded, and for a request
\* with a since message the lookup of its creation time, which is a query of
\* its own (up tells whether the database answers it; a request without a
\* since message makes no query in these lines)
GetMessageHistory(req, up) ==
    /\ reader.pc = "idle"
    /\ LET shard == GetShardByChannelID(req.ChannelID)
           limit == ClampLimit(req.Limit)
           cursorTime == IF req.Cursor # <<>> THEN decodeCursor(req.Cursor)
                         ELSE [ok |-> TRUE, err |-> "", time |-> Zero64]
           since == IF req.SinceID # <<>>
                    THEN SinceMessage(Table(shard.pool), req.SinceID,
                                      req.ChannelID, up)
                    ELSE [time |-> Nil, err |-> ""]
           start == [IdleReader EXCEPT !.req = req, !.pool = shard.pool,
                                       !.limit = limit]
       IN  reader' =
              IF ~shard.ok
              THEN [start EXCEPT !.pc = "done", !.err = "panic: index out of range"]
              ELSE IF ~cursorTime.ok
              THEN [start EXCEPT !.pc = "done",
                                 !.err = "invalid cursor: " \o cursorTime.err]
              ELSE IF since.err = ErrNoRows
              THEN [start EXCEPT !.pc = "done", !.err = "since message not found"]
              ELSE IF since.err # ""
              THEN HistoryFailed(start, "since",
                                 "failed to get since message timestamp: "
                                     \o since.err)
              ELSE [start EXCEPT !.pc = "query",
                                 !.cursorTime = cursorTime.time,
                                 !.sinceTime = since.time]
    /\ UNCHANGED <<codec, discovery, lb, checker, boot, channels, members, users, svc, shards, store, calls, walk, route, routePrev>>

\* the orders in which ORDER BY created_at can return a set of rows: every
\* arrangement sorted by created_at, rows of equal time in any order
OrderedBy(rows, ascending) ==
    LET n == Cardinality(rows)
    IN  {f \in [1..n -> rows] :
            /\ \A i, j \in 1..n : i # j => f[i] # f[j]
            /\ \A i, j \in 1..n : i < j =>
                 IF ascending THEN f[i].created_at <= f[j].created_at
                 ELSE f[i].created_at >= f[j].created_at}

\* the LIMIT applied one row short
PrefixOneShort(seq, n) == SubSeq(seq, 1, IF n - 1 < Len(seq) THEN n - 1 ELSE Len(seq))

\* LIMIT n of the query
Prefix(seq, n) == SubSeq(seq, 1, IF n < Len(seq) THEN n ELSE Len(seq))

\* a continuation by position: the request that follows k pages skips the
\* k * limit newest rows of the channel (OFFSET) and compares no creation
\* time with the cursor
FetchedRowsByOffset(r) ==
    LET table == Table(r.pool)
        Matches(m) ==
            /\ m.channel_id = r.req.ChannelID
            /\ r.req.Since # Nil =>
                 AfterSince(Int64(m.created_at), r.req.Since[1])
            /\ r.req.SinceID # <<>> =>
                 AfterSince(Int64(m.created_at), r.sinceTime[1])
        skip == IF r.req.Cursor # <<>> THEN walk.pages * r.limit ELSE 0
    IN  {Prefix(SubSeq(sorted, skip + 1, Len(sorted)), r.limit + 1) :
            sorted \in OrderedBy({table[i] : i \in {k \in 1..Len(table) :
                                                    Matches(table[k])}},
                                 OrderAscending(r.req))}

\* lines 169-189: the rows the message query of the call r hands to the
\* loop, for every order the database can return them in
FetchedRows(r) ==
    LET table == Table(r.pool)
        Matches(m) ==
            /\ m.channel_id = r.req.ChannelID
            /\ r.req.Cursor # <<>> =>
                 BeforeCursor(Int64(m.created_at), r.cursorTime)
            /\ r.req.Since # Nil =>
                 AfterSince(Int64(m.created_at), r.req.Since[1])
            /\ r.req.SinceID # <<>> =>
                 AfterSince(Int64(m.created_at), r.sinceTime[1])
    IN  {Prefix(sorted, r.limit + 1) :
            sorted \in OrderedBy({table[i] : i \in {k \in 1..Len(table) :
                                                    Matches(table[k])}},
                                 OrderAscending(r.req))}

\* lines 169-231: the message query answered, the rows scanned, has_more
\* and the next cursor; the count query follows.  The channel identifier is
\* sent as text: for one that is not a UUID pool.Query returns no error, the
\* loop reads no row and rows.Err reports the error of the database.
HistoryQuery ==
    /\ reader.pc = "query"
    /\ IF reader.req.ChannelID = <<>>
       THEN reader' = HistoryFailed(reader, "rows",
                                    "error iterating messages: " \o InvalidUUID)
       ELSE \E fetched \in FetchedRows(reader) :
              LET hasMore == Len(fetched) > reader.limit
                  messages == IF hasMore THEN SubSeq(fetched, 1, reader.limit)
                              ELSE fetched
                  nextCursor ==
                      IF IssuesCursor(reader.req, hasMore, messages)
                      THEN Ptr(encodeCursor(UnixNano(Int64(
                                   messages[Len(messages)].created_at))))
                      ELSE Nil
              IN  reader' = [reader EXCEPT !.pc = "total",
                                           !.messages = messages,
                                           !.hasMore = hasMore,
                                           !.nextCursor = nextCursor]
    /\ UNCHANGED <<codec, discovery, lb, checker, boot, channels, members, users, svc, shards, store, calls, walk, route, routePrev>>

HistoryTotalOfPage ==
    /\ reader.pc = "total"
    /\ reader' = [reader EXCEPT !.pc = "done", !.total = Len(reader.messages)]
    /\ UNCHANGED <<codec, discovery, lb, checker, boot, channels, members, users, svc, shards, store, calls, walk, route, routePrev>>

\* lines 233-246: SELECT COUNT(*) FROM messages WHERE channel_id = $1
HistoryTotal ==
    /\ reader.pc = "total"
    /\ LET InChannel(m) == m.channel_id = reader.req.ChannelID
       IN  reader' = [reader EXCEPT
               !.pc = "done",
               !.total = Len(SelectSeq(Table(reader.pool), InChannel))]
    /\ UNCHANGED <<codec, discovery, lb, checker, boot, channels, members, users, svc, shards, store, calls, walk, route, routePrev>>

HistoryFailures == {"query", "scan", "rows"}

\* lines 189-217: the message query when pool.Query fails, when rows.Scan
\* fails at the row after the first scanned ones, or when rows.Err reports
\* a failure after the rows that were read
HistoryQueryFails(failure, scanned) ==
    /\ reader.pc = "query"
    /\ \E fetched \in FetchedRows(reader) :
          /\ failure = "query" => scanned = 0
          /\ failure = "scan" => scanned < Len(fetched)
          /\ scanned <= Len(fetched)
          /\ reader' = HistoryFailed(
                 [reader EXCEPT !.messages = SubSeq(fetched, 1, scanned)],
                 failure,
                 (CASE failure = "query" -> "failed to query messages: "
                    [] failure = "scan" -> "failed to scan message: "
                    [] OTHER -> "error iterating messages: ")
                 \o StorageDown)
    /\ UNCHANGED <<codec, discovery, lb, checker, boot, channels, members, users, svc, shards, store, calls, walk, route, routePrev>>

\* lines 233-239: the count query fails after the page was built
HistoryTotalFails ==
    /\ reader.pc = "total"
    /\ reader' = HistoryFailed(reader, "total",
                               "failed to get total count: " \o StorageDown)
    /\ UNCHANGED <<codec, discovery, lb, checker, boot, channels, members, users, svc, shards, store, calls, walk, route, routePrev>>

\* the page or the error is handed to the caller
HistoryReturn ==
    /\ reader.pc = "done"
    /\ walk.pc # "walking"
    /\ reader' = IdleReader
    /\ UNCHANGED <<codec, discovery, lb, checker, boot, channels, members, users, svc, shards, store, calls, walk, route, routePrev>>

(***************************************************************************)
(* A client paging through a channel: the first request carries no cursor, *)
(* each following one the next_cursor of the page before, until has_more   *)
(* is false                                                                *)
(***************************************************************************)
IdleWalk ==
    [pc |-> "idle", channel |-> <<>>, limit |-> 0, cursor |-> <<>>,
     acc |-> <<>>, pages |-> 0, rows |-> 0]

\* rows is the number of rows the messages table holds when the traversal
\* starts: the rows are never removed or reordered, so the messages existing
\* at the start are the first of the table
WalkStart(channelID, limit) ==
    /\ walk.pc = "idle"
    /\ reader.pc = "idle"
    /\ walk' = [IdleWalk EXCEPT
           !.pc = "walking", !.channel = channelID, !.limit = limit,
           !.rows = Len(Table(GetShardByChannelID(channelID).pool))]
    /\ UNCHANGED <<codec, discovery, lb, checker, boot, channels, members, users, svc, shards, store, calls, reader, route, routePrev>>

WalkRequest ==
    /\ walk.pc = "walking"
    /\ walk.pages <= MaxMsgs + 1
    /\ GetMessageHistory([ChannelID |-> walk.channel, UserID |-> "u1",
                          Cursor |-> walk.cursor, Limit |-> walk.limit,
                          Since |-> Nil, SinceID |-> <<>>], TRUE)

WalkCollect ==
    /\ walk.pc = "walking"
    /\ reader.pc = "done"
    /\ walk' = [walk EXCEPT
           !.pc = IF reader.err = "" /\ reader.hasMore THEN "walking" ELSE "done",
           !.cursor = IF reader.nextCursor # Nil THEN reader.nextCursor[1] ELSE <<>>,
           !.acc = walk.acc \o reader.messages,
           !.pages = walk.pages + 1]
    /\ reader' = IdleReader
    /\ UNCHANGED <<codec, discovery, lb, checker, boot, channels, members, users, svc, shards, store, calls, route, routePrev>>

(***************************************************************************)
(* The queries of the Repository that chat.Service builds on               *)
(***************************************************************************)
GetChannelAlwaysFound(channelID, up) == [found |-> TRUE, err |-> ""]

\* SELECT ... FROM channels WHERE id = $1
GetChannel(channelID, up) ==
    LET failure == QueryFailure(up, channelID = <<>>)
    IN  IF failure # ""
        THEN [found |-> FALSE, err |-> "failed to get channel: " \o failure]
        ELSE IF channelID \in channels
        THEN [found |-> TRUE, err |-> ""]
        ELSE [found |-> FALSE, err |-> ErrNoRows]

IsChannelMemberFailOpen(channelID, userID, up) ==
    LET failure == QueryFailure(up, channelID = <<>> \/ userID = "")
    IN  [exists |-> failure # "" \/ <<channelID, userID>> \in members, err |-> ""]

IsChannelMemberOfAny(channelID, userID, up) ==
    LET failure == QueryFailure(up, channelID = <<>> \/ userID = "")
    IN  IF failure # ""
        THEN [exists |-> FALSE,
              err |-> "failed to check channel membership: " \o failure]
        ELSE [exists |-> \E row \in members : row[2] = userID, err |-> ""]

\* SELECT EXISTS(SELECT 1 FROM channel_members WHERE channel_id = $1 AND
\* user_id = $2)
IsChannelMember(channelID, userID, up) ==
    LET failure == QueryFailure(up, channelID = <<>> \/ userID = "")
    IN  IF failure # ""
        THEN [exists |-> FALSE,
              err |-> "failed to check channel membership: " \o failure]
        ELSE [exists |-> <<channelID, userID>> \in members, err |-> ""]

GetMessageOfAnyChannel(messageID, channelID, up) ==
    LET failure == QueryFailure(up, messageID = <<>> \/ channelID = <<>>)
        table == Table(GetShardByChannelID(channelID).pool)
        Is(m) == m.id = messageID
        found == SelectSeq(table, Is)
    IN  IF failure # ""
        THEN [message |-> Nil, err |-> "failed to get message: " \o failure]
        ELSE IF found = <<>>
        THEN [message |-> Nil, err |-> ErrNoRows]
        ELSE [message |-> Ptr(Head(found)), err |-> ""]

\* SELECT ... FROM messages WHERE id = $1 AND channel_id = $2
GetMessage(messageID, channelID, up) ==
    LET failure == QueryFailure(up, messageID = <<>> \/ channelID = <<>>)
        table == Table(GetShardByChannelID(channelID).pool)
        Is(m) == m.id = messageID /\ m.channel_id = channelID
        found == SelectSeq(table, Is)
    IN  IF failure # ""
        THEN [message |-> Nil, err |-> "failed to get message: " \o failure]
        ELSE IF found = <<>>
        THEN [message |-> Nil, err |-> ErrNoRows]
        ELSE [message |-> Ptr(Head(found)), err |-> ""]

(***************************************************************************)
(* chat.Service: SendMessage, GetMessageHistory and MarkMessageRead.  One  *)
(* call at a time; queries lists the store queries the call has made       *)
(* itself and pools the pools it made them on, down tells that the         *)
(* database left one of them unanswered,                                   *)
(* published lists the events the broker took from the call, publishErr    *)
(* is the error publishMessageEvent returned to it.                        *)
(***************************************************************************)
NoReadReceiptRequest == [ChannelID |-> <<>>, UserID |-> "", MessageID |-> <<>>]

NoPage == [messages |-> <<>>, nextCursor |-> Nil, hasMore |-> FALSE, total |-> 0]

IdleService ==
    [pc |-> "idle", op |-> "", send |-> NoSendRequest,
     hist |-> NoHistoryRequest, read |-> NoReadReceiptRequest,
     message |-> Nil, page |-> Nil, err |-> "",
     queries |-> <<>>, pools |-> {}, down |-> FALSE, published |-> <<>>,
     publishErr |-> ""]

NotAMember == "user is not a member of the channel"

\* the outcome of the membership check that opens SendMessage and
\* MarkMessageRead, and the second check of ValidateMessageFilters
MembershipError(member) ==
    IF member.err # ""
    THEN "failed to check channel membership: " \o member.err
    ELSE IF ~member.exists THEN NotAMember ELSE ""

\* SendMessage, the membership check
SendMessage(req, up) ==
    /\ svc.pc = "idle"
    /\ calls[1].pc = "idle"
    /\ reader.pc = "idle"
    /\ LET err == MembershipError(IsChannelMember(req.ChannelID, req.UserID, up))
           call == [IdleService EXCEPT !.op = "SendMessage", !.send = req,
                                       !.queries = <<"IsChannelMember">>,
                                       !.pools = {GetShardByChannelID(req.ChannelID).pool},
                                       !.down = ~up]
       IN  svc' = IF err # ""
                  THEN [call EXCEPT !.pc = "done", !.err = err]
                  ELSE [call EXCEPT !.pc = "create"]
    /\ UNCHANGED <<codec, discovery, lb, checker, boot, channels, members, users, shards, store, calls, reader, walk,
                   route, routePrev>>

\* SendMessage calls Repository.CreateMessage
SendCreate(up) ==
    /\ svc.pc = "create"
    /\ CreateCheck(1, svc.send, up)

\* what publishMessageEvent returns: an error when the broker did not take
\* the event, and when the value Publish returned is not nil though it did
publishMessageEvent(delivered, reported) ==
    IF ~delivered THEN "failed to publish to Redis: " \o StorageDown
    ELSE IF reported THEN "failed to publish to Redis: publish"
    ELSE ""

SendResultFailsOnPublish(message, publishErr) ==
    IF publishErr # "" THEN [message |-> Nil, err |-> publishErr]
    ELSE [message |-> message, err |-> ""]

\* the publication error is printed, the message returned
SendResult(message, publishErr) == [message |-> message, err |-> ""]

\* SendMessage after CreateMessage has returned: the error, or the event
\* handed to the broker (which takes it or not) and the message returned
SendPublish(delivered, reported) ==
    /\ svc.pc = "create"
    /\ calls[1].pc = "done"
    /\ svc' = IF calls[1].err # ""
              THEN [svc EXCEPT !.pc = "done",
                               !.err = "failed to create message: " \o calls[1].err]
              ELSE LET publishErr == publishMessageEvent(delivered, reported)
                       result == SendResult(calls[1].ret, publishErr)
                   IN  [svc EXCEPT
                          !.pc = "done",
                          !.message = result.message,
                          !.err = result.err,
                          !.publishErr = publishErr,
                          !.published =
                              IF delivered
                              THEN <<[topic |-> calls[1].ret[1].channel_id,
                                      message |-> calls[1].ret[1]]>>
                              ELSE <<>>]
    /\ calls' = [calls EXCEPT ![1] = IdleCall]
    /\ UNCHANGED <<codec, discovery, lb, checker, boot, channels, members, users, shards, store, reader, walk, route,
                   routePrev>>

\* ValidateMessageFilters, first check: the channel exists
ValidateChannel(req, up) ==
    /\ svc.pc = "idle"
    /\ calls[1].pc = "idle"
    /\ reader.pc = "idle"
    /\ LET channel == GetChannel(req.ChannelID, up)
           call == [IdleService EXCEPT !.op = "GetMessageHistory", !.hist = req,
                                       !.queries = <<"GetChannel">>,
                                       !.pools = {GetShardByChannelID(req.ChannelID).pool},
                                       !.down = ~up]
       IN  svc' = IF channel.err # ""
                  THEN [call EXCEPT !.pc = "done",
                                    !.err = "channel not found: " \o channel.err]
                  ELSE [call EXCEPT !.pc = "member"]
    /\ UNCHANGED <<codec, discovery, lb, checker, boot, channels, members, users, shards, store, calls, reader, walk,
                   route, routePrev>>

\* ValidateMessageFilters, second check: the caller is a member
ValidateMember(up) ==
    /\ svc.pc = "member"
    /\ LET err == MembershipError(
                      IsChannelMember(svc.hist.ChannelID, svc.hist.UserID, up))
           call == [svc EXCEPT !.queries = Append(svc.queries, "IsChannelMember"),
                               !.pools = svc.pools \cup
                                   {GetShardByChannelID(svc.hist.ChannelID).pool},
                               !.down = ~up]
       IN  svc' = IF err # ""
                  THEN [call EXCEPT !.pc = "done", !.err = err]
                  ELSE [call EXCEPT !.pc = "filters"]
    /\ UNCHANGED <<codec, discovery, lb, checker, boot, channels, members, users, shards, store, calls, reader, walk,
                   route, routePrev>>

\* ValidateMessageFilters, third check: the cursor decodes and the since
\* message is found
ValidateFilters(up) ==
    /\ svc.pc = "filters"
    /\ LET req == svc.hist
           cursor == IF req.Cursor # <<>> THEN decodeCursor(req.Cursor)
                     ELSE [ok |-> TRUE, err |-> "", time |-> Zero64]
           since == GetMessage(req.SinceID, req.ChannelID, up)
       IN  svc' = IF ~cursor.ok
                  THEN [svc EXCEPT !.pc = "done",
                                   !.err = "invalid cursor: " \o cursor.err]
                  ELSE IF req.SinceID = <<>>
                  THEN [svc EXCEPT !.pc = "query"]
                  ELSE IF since.err # ""
                  THEN [svc EXCEPT !.pc = "done",
                                   !.queries = Append(svc.queries, "GetMessage"),
                                   !.pools = svc.pools \cup
                                       {GetShardByChannelID(req.ChannelID).pool},
                                   !.down = ~up,
                                   !.err = "since message not found: " \o since.err]
                  ELSE [svc EXCEPT !.pc = "query",
                                   !.queries = Append(svc.queries, "GetMessage"),
                                   !.pools = svc.pools \cup
                                       {GetShardByChannelID(req.ChannelID).pool}]
    /\ UNCHANGED <<codec, discovery, lb, checker, boot, channels, members, users, shards, store, calls, reader, walk,
                   route, routePrev>>

\* Service.GetMessageHistory calls Repository.GetMessageHistory
ServiceQuery(up) ==
    /\ svc.pc = "query"
    /\ GetMessageHistory(svc.hist, up)

\* Service.GetMessageHistory returns what the Repository returned
ServicePage ==
    /\ svc.pc = "query"
    /\ reader.pc = "done"
    /\ svc' = IF reader.err # ""
              THEN [svc EXCEPT !.pc = "done", !.err = reader.err]
              ELSE [svc EXCEPT
                       !.pc = "done",
                       !.page = Ptr([messages |-> reader.messages,
                                     nextCursor |-> reader.nextCursor,
                                     hasMore |-> reader.hasMore,
                                     total |-> reader.total])]
    /\ reader' = IdleReader
    /\ UNCHANGED <<codec, discovery, lb, checker, boot, channels, members, users, shards, store, calls, walk, route,
                   routePrev>>

\* MarkMessageRead, the membership check
MarkMessageRead(req, up) ==
    /\ svc.pc = "idle"
    /\ calls[1].pc = "idle"
    /\ reader.pc = "idle"
    /\ LET err == MembershipError(IsChannelMember(req.ChannelID, req.UserID, up))
           call == [IdleService EXCEPT !.op = "MarkMessageRead", !.read = req,
                                       !.queries = <<"IsChannelMember">>,
                                       !.pools = {GetShardByChannelID(req.ChannelID).pool},
                                       !.down = ~up]
       IN  svc' = IF err # ""
                  THEN [call EXCEPT !.pc = "done", !.err = err]
                  ELSE [call EXCEPT !.pc = "lookup"]
    /\ UNCHANGED <<codec, discovery, lb, checker, boot, channels, members, users, shards, store, calls, reader, walk,
                   route, routePrev>>

\* MarkMessageRead, the message exists
MarkLookup(up) ==
    /\ svc.pc = "lookup"
    /\ LET found == GetMessage(svc.read.MessageID, svc.read.ChannelID, up)
           call == [svc EXCEPT !.pc = "done",
                               !.queries = Append(svc.queries, "GetMessage"),
                               !.pools = svc.pools \cup
                                   {GetShardByChannelID(svc.read.ChannelID).pool},
                               !.down = ~up]
       IN  svc' = IF found.err # ""
                  THEN [call EXCEPT !.err = "message not found: " \o found.err]
                  ELSE call
    /\ UNCHANGED <<codec, discovery, lb, checker, boot, channels, members, users, shards, store, calls, reader, walk,
                   route, routePrev>>

\* Repository.GetMessage called by itself: the point read
PointRead(req, up) ==
    /\ svc.pc = "idle"
    /\ calls[1].pc = "idle"
    /\ reader.pc = "idle"
    /\ LET found == GetMessage(req.MessageID, req.ChannelID, up)
       IN  svc' = [IdleService EXCEPT
                      !.pc = "done", !.op = "GetMessage", !.read = req,
                      !.queries = <<"GetMessage">>,
                      !.pools = {GetShardByChannelID(req.ChannelID).pool},
                      !.down = ~up,
                      !.message = found.message,
                      !.err = found.err]
    /\ UNCHANGED <<codec, discovery, lb, checker, boot, channels, members, users, shards, store, calls, reader, walk,
                   route, routePrev>>

\* the call returns to its caller, which may call again
ServiceReturn ==
    /\ svc.pc = "done"
    /\ svc' = IdleService
    /\ UNCHANGED <<codec, discovery, lb, checker, boot, channels, members, users, shards, store, calls, reader, walk,
                   route, routePrev>>

(***************************************************************************)
(* A GetShard call, observed                                               *)
(***************************************************************************)
NoRoute ==
    [key |-> <<>>, hash |-> FnvOffset32, index |-> 0, ok |-> TRUE,
     hashed |-> FALSE]

\* a GetShard that hashes the key whatever the number of shards
HashesKeyAlways(key) == TRUE

\* part_002 lines 62-64: with one shard GetShard returns before fnv.New32a()
HashesKey(key) == shards # 1

\* hash is the sum of the hasher of the call; no hasher, no sum
GetShardCall(key) ==
    /\ LET shard == GetShard(key)
       IN  route' = [key |-> key,
                     hash |-> IF HashesKey(key) THEN Fnv32a(key) ELSE FnvOffset32,
                     index |-> shard.pool,
                     ok |-> shard.ok,
                     hashed |-> HashesKey(key)]
    /\ routePrev' \in {routePrev, route}
    /\ UNCHANGED <<codec, discovery, lb, checker, boot, channels, members, users, svc, shards, store, calls, reader, walk>>

(***************************************************************************)
(* Inputs                                                                  *)
(***************************************************************************)
KeyBytes == {97, 99, 49}

RECURSIVE KeysOfLen(_)
KeysOfLen(n) ==
    IF n = 0 THEN {<<>>}
    ELSE {<<b>> \o k : b \in KeyBytes, k \in KeysOfLen(n - 1)}

\* the non-empty routing keys of at most MaxKeyLen bytes
RouteKeys == UNION {KeysOfLen(n) : n \in 1..MaxKeyLen}

Limits == {0 - 5, 0, 1, 2, 100, 101, 1000}

\* "!!", "OQ" (padding missing) and base64 of "a" (not a number)
BadCursors == {<<33, 33>>, <<79, 81>>, <<89, 81, 61, 61>>}

HistSendRequests ==
    [ChannelID : ChannelIDs, UserID : {"u1"}, Content : {"hi"},
     IdempotencyKey : {""}, MessageType : {""}]

LastTime == TimeBase + MaxTime - 1

\* the keys routed between the calls of the message operations: the
\* channel identifiers and "a"
RoutingKeys == ChannelIDs \cup {<<97>>}

\* history requests of both channels, plain and after a stored message
RoutingRequests ==
    {[ChannelID |-> c, UserID |-> "u1", Cursor |-> <<>>, Limit |-> 100,
      Since |-> Nil, SinceID |-> s] :
        c \in ChannelIDs, s \in {<<>>} \cup {<<i>> : i \in 1..MaxRoutedRows}}

\* the time.Time of the clock reading t of the database
TimeOf(t) == UnixNano(Int64(t))

\* 2025-10-29T16:00:00Z, a time of nineteen digits of nanoseconds, later
\* than every message of the model
WallClock == [neg |-> FALSE, mag |-> <<0, 42436, 400, 6259>>]

\* one nanosecond after the first clock reading: not a whole microsecond
JustAfterBase ==
    [neg |-> FALSE, mag |-> MulAdd(Int64(TimeBase).mag, 1000, 1).mag]

HistoryFilters ==
    LET none == [Cursor |-> <<>>, Since |-> Nil, SinceID |-> <<>>]
    IN  {none}
        \cup {[none EXCEPT !.Cursor = encodeCursor(TimeOf(t))] : t \in Times}
        \cup {[none EXCEPT !.Cursor = encodeCursor(WallClock)]}
        \cup {[none EXCEPT !.Cursor = c] : c \in BadCursors}
        \cup {[none EXCEPT !.Since = Ptr(TimeOf(t))] : t \in (TimeBase - 1)..LastTime}
        \cup {[none EXCEPT !.Since = Ptr(JustAfterBase)]}
        \cup {[none EXCEPT !.SinceID = <<i>>] : i \in 1..(MaxMsgs + 1)}
        \cup {[none EXCEPT !.Cursor = encodeCursor(TimeOf(LastTime)),
                           !.Since = Ptr(TimeOf(TimeBase - 1))],
              [none EXCEPT !.Since = Ptr(TimeOf(TimeBase)), !.SinceID = <<1>>],
              [none EXCEPT !.Cursor = encodeCursor(TimeOf(LastTime)), !.SinceID = <<1>>]}

\* the limits that are kept as they are
PageLimits == {1, 2, 100}

\* every filter with a limit that is kept, and every limit without a filter
HistoryRequests ==
    {[ChannelID |-> c, UserID |-> "u1", Cursor |-> f.Cursor, Limit |-> l,
      Since |-> f.Since, SinceID |-> f.SinceID] :
        c \in ChannelIDs, l \in PageLimits, f \in HistoryFilters}
    \cup {[ChannelID |-> c, UserID |-> "u1", Cursor |-> <<>>, Limit |-> l,
            Since |-> Nil, SinceID |-> <<>>] : c \in ChannelIDs, l \in Limits}

\* the requests read from a store whose queries can fail: one of each kind
\* of filter, with a limit below and a limit above the number of messages
FailureRequests ==
    {req \in HistoryRequests :
        /\ req.Limit \in {1, 100}
        /\ \/ req.Cursor = <<>> /\ req.Since = Nil /\ req.SinceID \in {<<>>, <<1>>}
           \/ req.Cursor = encodeCursor(TimeOf(LastTime)) /\ req.Since = Nil /\ req.SinceID = <<>>
           \/ req.Cursor = <<>> /\ req.Since = Ptr(TimeOf(TimeBase - 1)) /\ req.SinceID = <<>>}
    \cup {[ChannelID |-> <<>>, UserID |-> "u1", Cursor |-> <<>>, Limit |-> 1,
            Since |-> Nil, SinceID |-> s] : s \in {<<>>, <<1>>}}

\* whether the database answers the query GetMessageHistory makes before
\* its message query: the lookup of the since message, when there is one
Answers(req) == IF req.SinceID # <<>> THEN BOOLEAN ELSE {TRUE}

WalkLimits == {0, 1, 2}

\* a row that an earlier run of the service left in the messages table,
\* created at the time t before the first clock reading of this run
EarlierMessage(i, channelID, t) ==
    [id |-> <<i>>, channel_id |-> channelID, user_id |-> "u1",
     content |-> "hi", message_type |-> "text", created_at |-> t,
     updated_at |-> t, idempotency_key |-> Nil]

\* the messages table as the service finds it when it starts: empty, or
\* holding one or two rows of earlier runs, the second created after the
\* first
EarlierTables ==
    {<<>>}
    \cup {<<EarlierMessage(1, c, TimeBase - 1)>> : c \in ChannelIDs}
    \cup {<<EarlierMessage(1, c, TimeBase - 2),
            EarlierMessage(2, d, TimeBase - 1)>> : c, d \in ChannelIDs}

\* creation times over the range of UnixNano: around zero, around the limbs
\* of the representation, nine and ten digits, a microsecond apart in 2025,
\* and the ends of the range
UnixNanos ==
    {
     [neg |-> FALSE, mag |-> <<0, 0, 0, 0>>],   \* 0
     [neg |-> FALSE, mag |-> <<1, 0, 0, 0>>],   \* 1
     [neg |-> TRUE, mag |-> <<1, 0, 0, 0>>],   \* -1
     [neg |-> FALSE, mag |-> <<9, 0, 0, 0>>],   \* 9
     [neg |-> FALSE, mag |-> <<10, 0, 0, 0>>],   \* 10
     [neg |-> TRUE, mag |-> <<1000, 0, 0, 0>>],   \* -1000
     [neg |-> FALSE, mag |-> <<65535, 0, 0, 0>>],   \* 65535
     [neg |-> FALSE, mag |-> <<0, 1, 0, 0>>],   \* 65536
     [neg |-> FALSE, mag |-> <<51711, 15258, 0, 0>>],   \* 999999999
     [neg |-> FALSE, mag |-> <<0, 0, 1, 0>>],   \* 4294967296
     [neg |-> FALSE, mag |-> <<64536, 42435, 400, 6259>>],   \* 1761753599999999000
     [neg |-> FALSE, mag |-> <<0, 42436, 400, 6259>>],   \* 1761753600000000000
     [neg |-> FALSE, mag |-> <<1000, 42436, 400, 6259>>],   \* 1761753600000001000
     [neg |-> FALSE, mag |-> <<65534, 65535, 65535, 32767>>],   \* 9223372036854775806
     [neg |-> FALSE, mag |-> <<65535, 65535, 65535, 32767>>],   \* 9223372036854775807
     [neg |-> TRUE, mag |-> <<65535, 65535, 65535, 32767>>],   \* -9223372036854775807
     [neg |-> TRUE, mag |-> <<0, 0, 0, 32768>>]   \* -9223372036854775808
    }

\* the created_at of rows: those times as the column stores them
Timestamps == {Timestamptz(t) : t \in UnixNanos}

\* "c2", a channel identifier with no row in channels
AbsentChannelID == <<99, 50>>

ValidSendRequest ==
    [ChannelID |-> <<99, 49>>, UserID |-> "u1", Content |-> "hi",
     IdempotencyKey |-> "", MessageType |-> ""]

\* requests the messages table refuses: a channel or a user with no row,
\* an identifier that is not a UUID
RefusedSendRequests ==
    {[ValidSendRequest EXCEPT !.ChannelID = c, !.IdempotencyKey = k] :
        c \in {AbsentChannelID, <<>>}, k \in {"", "k1"}}
    \cup {[ValidSendRequest EXCEPT !.UserID = u] : u \in {"u3", ""}}

\* the valid request and its variations in the channel or the user
ServiceSendRequests ==
    {[ValidSendRequest EXCEPT !.ChannelID = c] :
        c \in ChannelIDs \cup {AbsentChannelID, <<>>}}
    \cup {[ValidSendRequest EXCEPT !.UserID = u] : u \in {"u2", ""}}

\* those, and the requests of empty content and with an idempotency key
WideSendRequests ==
    ServiceSendRequests
    \cup {[ValidSendRequest EXCEPT !.Content = ""],
          [ValidSendRequest EXCEPT !.IdempotencyKey = "k1"]}

\* requests of a member with and without an idempotency key, in both channels
PublishSendRequests ==
    {[ValidSendRequest EXCEPT !.IdempotencyKey = k, !.ChannelID = c] :
        k \in {"", "k1"}, c \in ChannelIDs}

ServiceHistoryFilters ==
    LET none == [Cursor |-> <<>>, Since |-> Nil, SinceID |-> <<>>]
    IN  {none,
         [none EXCEPT !.Cursor = encodeCursor(TimeOf(LastTime))],
         [none EXCEPT !.Cursor = <<33, 33>>],
         [none EXCEPT !.Cursor = <<89, 81, 61, 61>>],
         [none EXCEPT !.Since = Ptr(TimeOf(TimeBase))],
         [none EXCEPT !.SinceID = <<1>>],
         [none EXCEPT !.SinceID = <<MaxMsgs + 1>>],
         [none EXCEPT !.Cursor = encodeCursor(TimeOf(LastTime)), !.Since = Ptr(TimeOf(TimeBase - 1))],
         [none EXCEPT !.Since = Ptr(TimeOf(TimeBase)), !.SinceID = <<1>>],
         [none EXCEPT !.Cursor = encodeCursor(TimeOf(LastTime)), !.SinceID = <<1>>]}

ServiceHistoryRequests ==
    {[ChannelID |-> c, UserID |-> u, Cursor |-> f.Cursor, Limit |-> 2,
      Since |-> f.Since, SinceID |-> f.SinceID] :
        c \in {<<99, 49>>, AbsentChannelID}, u \in {"u1", "u2"},
        f \in ServiceHistoryFilters}

\* the arguments of Repository.GetMessage: a message and a channel
PointReadRequests ==
    [ChannelID : ChannelIDs \cup {AbsentChannelID}, UserID : {""},
     MessageID : {<<1>>, <<2>>, <<MaxMsgs + 1>>}]

ReadReceiptRequests ==
    [ChannelID : {<<99, 49>>, AbsentChannelID}, UserID : {"u1", "u2"},
     MessageID : {<<1>>, <<MaxMsgs + 1>>}]

(***************************************************************************)
(* discovery.MemoryDiscovery and discovery.LoadBalancer.  GetInstance runs *)
(* in NumCallers goroutines; Register and Deregister run beside them.      *)
(***************************************************************************)
ServiceNames == {"chat-service", "presence-service"}

NoInstances == <<>>

\* NewMemoryDiscovery: no service registered (a name maps to Nil), or after
\* Register: a name maps to the list of its instances
NoServices == [name \in ServiceNames |-> Nil]

\* the instances of a name, none when the name is not a key of the map
InstancesOf(services, serviceName) ==
    IF services[serviceName] = Nil THEN NoInstances ELSE services[serviceName][1]

\* lines 50-59: the map with an instance appended to the list of the name
Registered(services, serviceName, port, now) ==
    [services EXCEPT ![serviceName] =
        Ptr(Append(InstancesOf(services, serviceName),
                   [ID |-> <<serviceName, now>>, Name |-> serviceName,
                    Address |-> "localhost", Port |-> port,
                    Health |-> "healthy"]))]

\* line 68: delete(d.services, serviceName)
Deregistered(services, serviceName) == [services EXCEPT ![serviceName] = Nil]

\* lines 46-61
Register(serviceName, port, now) ==
    /\ Len(InstancesOf(discovery, serviceName)) < MaxInstances
    /\ discovery' = Registered(discovery, serviceName, port, now)
    /\ UNCHANGED <<codec, lb, checker, boot, channels, members, users, svc, shards, store, calls, reader, walk, route, routePrev>>

\* lines 64-70
Deregister(serviceName) ==
    /\ discovery[serviceName] # Nil
    /\ discovery' = Deregistered(discovery, serviceName)
    /\ UNCHANGED <<codec, lb, checker, boot, channels, members, users, svc, shards, store, calls, reader, walk, route, routePrev>>

\* lines 73-86: a copy of the list, or the error of an unknown name
Discover(serviceName) ==
    IF discovery[serviceName] = Nil
    THEN [instances |-> NoInstances, err |-> "service not found"]
    ELSE [instances |-> discovery[serviceName][1], err |-> ""]

IdleGetInstance ==
    [pc |-> "idle", serviceName |-> "", instances |-> NoInstances,
     read |-> 0, index |-> 0, instance |-> Nil, err |-> ""]

\* NewLoadBalancer: counter 0, mutex free (0), no call
NewLoadBalancer ==
    [counter |-> 0, mutex |-> 0, calls |-> [p \in Callers |-> IdleGetInstance]]

\* a mutex that every goroutine may take at any time
LockAlways(mutex, p) == TRUE

\* sync.Mutex.Lock returns when no goroutine holds the mutex
Lock(mutex, p) == mutex = 0

\* lines 159-166: Discover, and the two errors
GetInstanceDiscover(p, serviceName) ==
    /\ lb.calls[p].pc = "idle"
    /\ LET found == Discover(serviceName)
           call == [IdleGetInstance EXCEPT !.serviceName = serviceName,
                                           !.instances = found.instances]
       IN  lb' = [lb EXCEPT !.calls[p] =
              IF found.err # ""
              THEN [call EXCEPT !.pc = "done", !.err = found.err]
              ELSE IF Len(found.instances) = 0
              THEN [call EXCEPT !.pc = "done",
                                !.err = "no healthy instances found for service"]
              ELSE [call EXCEPT !.pc = "lock"]]
    /\ UNCHANGED <<codec, discovery, checker, boot, channels, members, users, svc, shards, store, calls, reader, walk, route, routePrev>>

\* lines 168-169: lb.mutex.Lock(); index := lb.counter % uint64(len(instances))
GetInstanceIndex(p) ==
    /\ lb.calls[p].pc = "lock"
    /\ Lock(lb.mutex, p)
    /\ lb' = [lb EXCEPT
           !.mutex = p,
           !.calls[p] = [lb.calls[p] EXCEPT
               !.pc = "increment",
               !.read = lb.counter,
               !.index = lb.counter % Len(lb.calls[p].instances)]]
    /\ UNCHANGED <<codec, discovery, checker, boot, channels, members, users, svc, shards, store, calls, reader, walk, route, routePrev>>

\* lines 170-173: lb.counter++; lb.mutex.Unlock(); return instances[index]
GetInstanceIncrement(p) ==
    /\ lb.calls[p].pc = "increment"
    /\ lb.counter < MaxPicks
    /\ lb' = [lb EXCEPT
           !.counter = lb.counter + 1,
           !.mutex = IF lb.mutex = p THEN 0 ELSE lb.mutex,
           !.calls[p] = [lb.calls[p] EXCEPT
               !.pc = "done",
               !.instance = Ptr(lb.calls[p].instances[lb.calls[p].index + 1])]]
    /\ UNCHANGED <<codec, discovery, checker, boot, channels, members, users, svc, shards, store, calls, reader, walk, route, routePrev>>

\* the call returns to its caller, which may call again
GetInstanceReturn(p) ==
    /\ lb.calls[p].pc = "done"
    /\ lb' = [lb EXCEPT !.calls[p] = IdleGetInstance]
    /\ UNCHANGED <<codec, discovery, checker, boot, channels, members, users, svc, shards, store, calls, reader, walk, route, routePrev>>

(***************************************************************************)
(* health.Checker.  Check copies the registered checks, runs each of them  *)
(* in a goroutine of its own and waits for all of them; AddCheck and       *)
(* RemoveCheck run beside it.                                              *)
(***************************************************************************)
CheckNames == {"database", "redis", "discovery"}

StatusHealthy == "healthy"
StatusUnhealthy == "unhealthy"

NoResult == [Status |-> "", Error |-> ""]

IdleCheck ==
    [pc |-> "idle", checks |-> {}, pending |-> {},
     results |-> [name \in CheckNames |-> NoResult],
     overallStatus |-> "", response |-> Nil]

\* NewChecker: no check registered, no call
NewChecker == [checks |-> {}, call |-> IdleCheck]

\* line 63: c.checks[name] = check
WithCheck(c, name) == [c EXCEPT !.checks = c.checks \cup {name}]

\* lines 60-64
AddCheck(name) ==
    /\ name \notin checker.checks
    /\ checker' = WithCheck(checker, name)
    /\ UNCHANGED <<codec, discovery, lb, boot, channels, members, users, svc, shards, store, calls, reader, walk, route, routePrev>>

\* lines 67-71
RemoveCheck(name) ==
    /\ name \in checker.checks
    /\ checker' = [checker EXCEPT !.checks = checker.checks \ {name}]
    /\ UNCHANGED <<codec, discovery, lb, boot, channels, members, users, svc, shards, store, calls, reader, walk, route, routePrev>>

\* lines 89-136: the checks copied under the read lock, the results empty,
\* the overall status healthy, one goroutine started for every copied check
CheckStart ==
    /\ checker.call.pc = "idle"
    /\ checker' = [checker EXCEPT !.call =
           [IdleCheck EXCEPT !.pc = "wait", !.checks = checker.checks,
                             !.pending = checker.checks,
                             !.overallStatus = StatusHealthy]]
    /\ UNCHANGED <<codec, discovery, lb, boot, channels, members, users, svc, shards, store, calls, reader, walk, route, routePrev>>

\* lines 109-135: the goroutine of one check: the check returns an error or
\* nil, the result is stored and the overall status lowered under the
\* results mutex, wg.Done
CheckRun(name, failed) ==
    /\ checker.call.pc = "wait"
    /\ name \in checker.call.pending
    /\ LET call == checker.call
           result == IF failed
                     THEN [Status |-> StatusUnhealthy, Error |-> "check failed"]
                     ELSE [Status |-> StatusHealthy, Error |-> ""]
       IN  checker' = [checker EXCEPT !.call =
              [call EXCEPT
                 !.pending = call.pending \ {name},
                 !.results[name] = result,
                 !.overallStatus =
                     IF result.Status # StatusHealthy
                        /\ call.overallStatus = StatusHealthy
                     THEN StatusUnhealthy ELSE call.overallStatus]]
    /\ UNCHANGED <<codec, discovery, lb, boot, channels, members, users, svc, shards, store, calls, reader, walk, route, routePrev>>

\* a wait that returns while goroutines are still running
WaitNever(pending) == TRUE

\* line 138: wg.Wait() returns when every goroutine has called wg.Done
Wait(pending) == pending = {}

\* lines 138-146: the response built from the results and the overall status
CheckRespond ==
    /\ checker.call.pc = "wait"
    /\ Wait(checker.call.pending)
    /\ checker' = [checker EXCEPT !.call =
           [checker.call EXCEPT
              !.pc = "done",
              !.response =
                  Ptr([Status |-> checker.call.overallStatus,
                       Checks |-> {[Name |-> name,
                                    Status |-> checker.call.results[name].Status,
                                    Error |-> checker.call.results[name].Error] :
                                   name \in {n \in CheckNames :
                                       checker.call.results[n] # NoResult}}])]]
    /\ UNCHANGED <<codec, discovery, lb, boot, channels, members, users, svc, shards, store, calls, reader, walk, route, routePrev>>

\* the response is handed to the caller, which may call again
CheckReturn ==
    /\ checker.call.pc = "done"
    /\ checker' = [checker EXCEPT !.call = IdleCheck]
    /\ UNCHANGED <<codec, discovery, lb, boot, channels, members, users, svc, shards, store, calls, reader, walk, route, routePrev>>

(***************************************************************************)
(* The chat-service process: NewPostgreDB opens the pools one by one, main *)
(* initialises the other collaborators, serves, and shuts down.  A pool is *)
(* "none" before pgxpool.NewWithConfig made it, then "open", and "closed"  *)
(* once pool.Close() was called on it.                                     *)
(***************************************************************************)
PoolIndices == 0..(ShardCount - 1)

Starting ==
    [pc |-> "NewPostgreDB", i |-> 0, pools |-> [k \in PoolIndices |-> "none"],
     exit |-> ""]

\* the process in service: every pool open
Serving ==
    [pc |-> "serving", i |-> ShardCount, pools |-> [k \in PoolIndices |-> "open"],
     exit |-> ""]

\* the checker and the memory discovery of the process in service: the
\* checks chat.New added, the instance main registered
ServingChecker == WithCheck(WithCheck(NewChecker, "database"), "redis")

ServingDiscovery == Registered(NoServices, "chat-service", ":8081", TimeBase)

\* PostgresDB.Close: pool.Close() on every pool
Close(pools) == [k \in PoolIndices |-> "closed"]

\* Client.Close of the redis package calls itself: it never returns, the
\* stack overflows and the process dies
RedisCloseReturns == FALSE

\* one round of the loop of NewPostgreDB; the configuration is the same in
\* every round, so it is rejected in the first round or in none
OpenPool(outcome) ==
    /\ boot.pc = "NewPostgreDB"
    /\ outcome = "failed to parse the database config" => boot.i = 0
    /\ boot' =
         IF outcome = "ok"
         THEN [boot EXCEPT !.pools[boot.i] = "open",
                           !.i = boot.i + 1,
                           !.pc = IF boot.i + 1 = ShardCount THEN "redis"
                                  ELSE "NewPostgreDB"]
         ELSE IF outcome = "failed to ping database"
         THEN [boot EXCEPT !.pools[boot.i] = "open", !.pc = "failed",
                           !.exit = outcome]
         ELSE [boot EXCEPT !.pc = "failed", !.exit = outcome]
    /\ UNCHANGED <<codec, discovery, lb, checker, channels, members, users, svc, shards, store, calls, reader, walk,
                   route, routePrev>>

PoolOutcomes ==
    {"ok", "failed to parse the database config",
     "failed to create connection pool", "failed to ping database"}

\* log.Fatalf: the process exits at once, deferred calls are not run
Fatalf(message) == [boot EXCEPT !.pc = "exited", !.exit = message]

\* main after NewPostgreDB returned its error
MainDatabaseFailed ==
    /\ boot.pc = "failed"
    /\ boot' = Fatalf("Failed to initialize database")
    /\ UNCHANGED <<codec, discovery, lb, checker, channels, members, users, svc, shards, store, calls, reader, walk,
                   route, routePrev>>

\* part_005 lines 47-75, main from defer db.Close() to the start of the
\* server.  At "redis" the redis client and at "discovery" discovery.New
\* succeed or end the process.  At "register" come health.NewChecker,
\* chat.New, which adds the checks "database" and "redis", and Register,
\* which appends an instance to the memory discovery (ok) or fails as the
\* consul discovery does and ends the process.
MainInit(ok) ==
    /\ boot.pc \in {"redis", "discovery", "register"}
    /\ boot' =
         IF ok
         THEN [boot EXCEPT !.pc = IF boot.pc = "redis" THEN "discovery"
                                  ELSE IF boot.pc = "discovery" THEN "register"
                                  ELSE "serving"]
         ELSE Fatalf(IF boot.pc = "redis" THEN "Failed to initialize Redis"
                     ELSE IF boot.pc = "discovery"
                     THEN "Failed to initialize service discovery"
                     ELSE "Failed to register service")
    /\ checker' = IF boot.pc = "register"
                  THEN WithCheck(WithCheck(NewChecker, "database"), "redis")
                  ELSE checker
    /\ IF boot.pc = "discovery" /\ ok
       THEN discovery' = NoServices
       ELSE IF boot.pc = "register" /\ ok
       THEN \E now \in Times :
               discovery' = Registered(discovery, "chat-service", ":8081", now)
       ELSE discovery' = discovery
    /\ UNCHANGED <<codec, lb, channels, members, users, svc, shards, store, calls, reader, walk,
                   route, routePrev>>

\* the server fails to listen, or the process is told to stop
MainServe(signalled) ==
    /\ boot.pc = "serving"
    /\ boot' = IF signalled THEN [boot EXCEPT !.pc = "shutdown"]
               ELSE Fatalf("Failed to start server")
    /\ UNCHANGED <<codec, discovery, lb, checker, channels, members, users, svc, shards, store, calls, reader, walk,
                   route, routePrev>>

\* part_005 lines 102-110: server.Shutdown, which fails and ends the process
\* or is followed by Deregister; then main returns and its deferred calls
\* run, last deferred first: cancel, redisClient.Close, db.Close
MainShutdown(ok) ==
    /\ boot.pc = "shutdown"
    /\ boot' =
         IF ~ok THEN Fatalf("Server forced to shutdown")
         ELSE IF RedisCloseReturns
         THEN [boot EXCEPT !.pc = "exited", !.exit = "return",
                           !.pools = Close(boot.pools)]
         ELSE [boot EXCEPT !.pc = "exited", !.exit = "stack overflow"]
    /\ discovery' = IF ok THEN Deregistered(discovery, "chat-service")
                    ELSE discovery
    /\ UNCHANGED <<codec, lb, checker, channels, members, users, svc, shards, store, calls, reader, walk,
                   route, routePrev>>

(***************************************************************************)
(* Specifications                                                          *)
(***************************************************************************)
Init ==
    /\ shards = ShardCount
    /\ store = [d \in Databases |-> <<>>]
    /\ calls = [p \in Callers |-> IdleCall]
    /\ reader = IdleReader
    /\ walk = IdleWalk
    /\ route = NoRoute
    /\ routePrev = NoRoute
    /\ channels = ChannelIDs
    /\ members = {<<c, "u1">> : c \in ChannelIDs}
    /\ users = UserIDs
    /\ svc = IdleService
    /\ boot = Serving
    /\ discovery = ServingDiscovery
    /\ lb = NewLoadBalancer
    /\ checker = ServingChecker
    /\ codec = IdleCodec

\* shard routing alone
NextRoute == \E key \in RouteKeys : GetShardCall(key)

SpecRoute == Init /\ [][NextRoute]_vars

\* GetShard called directly and by CreateMessage and GetMessageHistory,
\* the calls, the inserts and the queries interleaved in every way, while
\* the table holds fewer than MaxRoutedRows rows
NextRouting ==
    \/ \E key \in RoutingKeys : GetShardCall(key)
    \/ /\ \A d \in Databases : Len(store[d]) < MaxRoutedRows
       /\ \E req \in HistSendRequests : CreateCheck(1, req, TRUE)
    \/ CreateInsert(1, TRUE)
    \/ CreateReturn(1)
    \/ \E req \in RoutingRequests : GetMessageHistory(req, TRUE)
    \/ HistoryQuery
    \/ HistoryTotal
    \/ HistoryReturn

SpecRouting == Init /\ [][NextRouting]_vars

\* NumCallers CreateMessage calls, interleaved in every way
NextCreate ==
    \E p \in Callers, up \in BOOLEAN :
        \/ \E req \in SendRequests : CreateCheck(p, req, up)
        \/ CreateInsert(p, up)

SpecCreate == Init /\ [][NextCreate]_vars

\* CreateMessage calls one after the other
NextSeq ==
    \E p \in Callers, up \in BOOLEAN :
        \/ /\ \A q \in Callers \ {p} : calls[q].pc \in {"idle", "done"}
           /\ \E req \in SeqSendRequests : CreateCheck(p, req, up)
        \/ CreateInsert(p, up)

SpecSeq == Init /\ [][NextSeq]_vars

\* one writer and one reader, a call at a time
NextHistory ==
    \/ /\ reader.pc = "idle"
       /\ \E req \in HistSendRequests, up \in BOOLEAN : CreateCheck(1, req, up)
    \/ \E up \in BOOLEAN : CreateInsert(1, up)
    \/ CreateReturn(1)
    \/ /\ calls[1].pc = "idle"
       /\ \E req \in HistoryRequests : \E up \in Answers(req) :
             GetMessageHistory(req, up)
    \/ HistoryQuery
    \/ HistoryTotal
    \/ HistoryReturn

SpecHistory == Init /\ [][NextHistory]_vars

\* one writer filling the store, then a client paging with no writes meanwhile
NextWalk ==
    \/ /\ walk.pc = "idle"
       /\ \E req \in HistSendRequests, up \in BOOLEAN : CreateCheck(1, req, up)
    \/ \E up \in BOOLEAN : CreateInsert(1, up)
    \/ CreateReturn(1)
    \/ /\ calls[1].pc = "idle"
       /\ \E c \in ChannelIDs, l \in WalkLimits : WalkStart(c, l)
    \/ WalkRequest
    \/ HistoryQuery
    \/ HistoryTotal
    \/ WalkCollect

SpecWalk == Init /\ [][NextWalk]_vars

\* the operations of chat.Service, a call at a time, and between them
\* Repository.GetMessageHistory called directly
NextService ==
    \/ \E req \in ServiceSendRequests, up \in BOOLEAN : SendMessage(req, up)
    \/ \E up \in BOOLEAN : SendCreate(up)
    \/ \E up \in BOOLEAN : CreateInsert(1, up)
    \/ \E delivered, reported \in BOOLEAN : SendPublish(delivered, reported)
    \/ \E req \in ServiceHistoryRequests, up \in BOOLEAN : ValidateChannel(req, up)
    \/ \E up \in BOOLEAN : ValidateMember(up)
    \/ \E up \in BOOLEAN : ValidateFilters(up)
    \/ \E up \in BOOLEAN : ServiceQuery(up)
    \/ HistoryQuery
    \/ HistoryTotal
    \/ ServicePage
    \/ \E req \in ReadReceiptRequests, up \in BOOLEAN : MarkMessageRead(req, up)
    \/ \E up \in BOOLEAN : MarkLookup(up)
    \/ \E req \in PointReadRequests, up \in BOOLEAN : PointRead(req, up)
    \/ ServiceReturn
    \/ /\ svc.pc = "idle"
       /\ calls[1].pc = "idle"
       /\ \E req \in ServiceHistoryRequests : \E up \in Answers(req) :
             GetMessageHistory(req, up)
    \/ /\ svc.pc = "idle"
       /\ HistoryReturn

SpecService == Init /\ [][NextService]_vars

\* SendMessage alone, a call at a time, over a wider set of requests
NextSend ==
    \/ \E req \in WideSendRequests, up \in BOOLEAN : SendMessage(req, up)
    \/ \E up \in BOOLEAN : SendCreate(up)
    \/ \E up \in BOOLEAN : CreateInsert(1, up)
    \/ \E delivered, reported \in BOOLEAN : SendPublish(delivered, reported)
    \/ ServiceReturn

SpecSend == Init /\ [][NextSend]_vars

\* the process from its start to its end; while it serves, keys are routed
NextBoot ==
    \/ \E outcome \in PoolOutcomes : OpenPool(outcome)
    \/ MainDatabaseFailed
    \/ \E ok \in BOOLEAN : MainInit(ok)
    \/ \E signalled \in BOOLEAN : MainServe(signalled)
    \/ \E ok \in BOOLEAN : MainShutdown(ok)
    \/ /\ boot.pc = "serving"
       /\ \E key \in RouteKeys : GetShardCall(key)

InitBoot ==
    /\ shards = ShardCount
    /\ store = [d \in Databases |-> <<>>]
    /\ calls = [p \in Callers |-> IdleCall]
    /\ reader = IdleReader
    /\ walk = IdleWalk
    /\ route = NoRoute
    /\ routePrev = NoRoute
    /\ channels = ChannelIDs
    /\ members = {<<c, "u1">> : c \in ChannelIDs}
    /\ users = UserIDs
    /\ svc = IdleService
    /\ boot = Starting
    /\ discovery = NoServices
    /\ lb = NewLoadBalancer
    /\ checker = NewChecker
    /\ codec = IdleCodec

SpecBoot == InitBoot /\ [][NextBoot]_vars

\* the service started on a database that may hold rows of earlier runs
InitPaging ==
    /\ shards = ShardCount
    /\ \E table \in EarlierTables : store = [d \in Databases |-> table]
    /\ calls = [p \in Callers |-> IdleCall]
    /\ reader = IdleReader
    /\ walk = IdleWalk
    /\ route = NoRoute
    /\ routePrev = NoRoute
    /\ channels = ChannelIDs
    /\ members = {<<c, "u1">> : c \in ChannelIDs}
    /\ users = UserIDs
    /\ svc = IdleService
    /\ boot = Serving
    /\ discovery = ServingDiscovery
    /\ lb = NewLoadBalancer
    /\ checker = ServingChecker
    /\ codec = IdleCodec

\* a client paging with a limit of 1 or 2 while a writer creates messages,
\* interleaved in every way, the database answering every statement
NextPaging ==
    \/ \E req \in HistSendRequests : CreateCheck(1, req, TRUE)
    \/ CreateInsert(1, TRUE)
    \/ CreateReturn(1)
    \/ \E c \in ChannelIDs, l \in WalkLimits \ {0} : WalkStart(c, l)
    \/ WalkRequest
    \/ HistoryQuery
    \/ HistoryTotal
    \/ WalkCollect

SpecPaging == InitPaging /\ [][NextPaging]_vars

\* SendMessage of a member, a call at a time, keys reused across channels
NextPublish ==
    \/ \E req \in PublishSendRequests, up \in BOOLEAN : SendMessage(req, up)
    \/ \E up \in BOOLEAN : SendCreate(up)
    \/ \E up \in BOOLEAN : CreateInsert(1, up)
    \/ \E delivered, reported \in BOOLEAN : SendPublish(delivered, reported)
    \/ ServiceReturn

SpecPublish == Init /\ [][NextPublish]_vars

\* CreateMessage calls with and without a message type, and calls the
\* messages table refuses, one after the other
NextTyped ==
    \/ \E req \in TypedSendRequests \cup RefusedSendRequests, up \in BOOLEAN :
          CreateCheck(1, req, up)
    \/ \E up \in BOOLEAN : CreateInsert(1, up)
    \/ CreateReturn(1)

SpecTyped == Init /\ [][NextTyped]_vars

\* GetInstance in NumCallers goroutines while instances of chat-service
\* register, each at a later second, and deregister; presence-service is
\* never registered
NextBalance ==
    \/ Register("chat-service", ":8081",
                TimeBase + Len(Discover("chat-service").instances))
    \/ Deregister("chat-service")
    \/ \E p \in Callers :
          \/ \E name \in ServiceNames : GetInstanceDiscover(p, name)
          \/ GetInstanceIndex(p)
          \/ GetInstanceIncrement(p)
          \/ GetInstanceReturn(p)

SpecBalance == Init /\ [][NextBalance]_vars

\* Check while checks are added and removed
NextHealth ==
    \/ \E name \in CheckNames : AddCheck(name)
    \/ \E name \in CheckNames : RemoveCheck(name)
    \/ CheckStart
    \/ \E name \in CheckNames, failed \in BOOLEAN : CheckRun(name, failed)
    \/ CheckRespond
    \/ CheckReturn

SpecHealth == Init /\ [][NextHealth]_vars

\* the cursor of a creation time encoded, decoded, and compared with the
\* creation times of rows
NextCodec ==
    \/ \E t \in UnixNanos : EncodeCall(t)
    \/ DecodeCall
    \/ \E created \in Timestamps : CompareCall(created)

SpecCodec == Init /\ [][NextCodec]_vars

\* shard routing in a PostgresDB of one shard or of several
InitShards ==
    /\ shards \in 1..ShardCount
    /\ store = [d \in Databases |-> <<>>]
    /\ calls = [p \in Callers |-> IdleCall]
    /\ reader = IdleReader
    /\ walk = IdleWalk
    /\ route = NoRoute
    /\ routePrev = NoRoute
    /\ channels = ChannelIDs
    /\ members = {<<c, "u1">> : c \in ChannelIDs}
    /\ users = UserIDs
    /\ svc = IdleService
    /\ boot = Serving
    /\ discovery = ServingDiscovery
    /\ lb = NewLoadBalancer
    /\ checker = ServingChecker
    /\ codec = IdleCodec

SpecShards == InitShards /\ [][NextRoute]_vars

\* one writer and one reader of a store whose queries can fail
NextFailure ==
    \/ /\ reader.pc = "idle"
       /\ \E req \in HistSendRequests, up \in BOOLEAN : CreateCheck(1, req, up)
    \/ \E up \in BOOLEAN : CreateInsert(1, up)
    \/ CreateReturn(1)
    \/ /\ calls[1].pc = "idle"
       /\ \E req \in FailureRequests : \E up \in Answers(req) :
             GetMessageHistory(req, up)
    \/ HistoryQuery
    \/ \E failure \in HistoryFailures, scanned \in 0..MaxMsgs :
          HistoryQueryFails(failure, scanned)
    \/ HistoryTotal
    \/ HistoryTotalFails
    \/ HistoryReturn

SpecFailure == Init /\ [][NextFailure]_vars

Next ==
    \/ NextRoute \/ NextCreate \/ NextHistory \/ NextWalk \/ NextService
    \/ NextSend \/ NextBoot \/ NextFailure \/ NextPaging \/ NextPublish \/ NextTyped
    \/ NextBalance \/ NextHealth \/ NextCodec

Spec == Init /\ [][Next]_vars

(***************************************************************************)
(* Properties                                                              *)
(***************************************************************************)
\* the rows of a pool's table that bear a key
RowsWithKey(pool, key) ==
    LET KeyIs(m) == m.idempotency_key = Ptr(key)
    IN  SelectSeq(Table(pool), KeyIs)

\* the rows of a channel, as the set of its messages
ChannelMessages(channelID) ==
    LET table == Table(GetShardByChannelID(channelID).pool)
    IN  {table[i] : i \in {k \in 1..Len(table) : table[k].channel_id = channelID}}

\* the errors of a create whose database did not answer: the transient
\* storage failure, which the caller may retry
StorageFailures ==
    {"failed to check idempotency key: " \o StorageDown,
     "failed to create message: " \o StorageDown}

\* the database answered every statement of the call
StoreAnswered(p) == calls[p].err \notin StorageFailures

SameCreate(p, q) ==
    /\ p # q
    /\ StoreAnswered(p)
    /\ StoreAnswered(q)
    /\ calls[p].pc = "done"
    /\ calls[q].pc = "done"
    /\ calls[p].req.IdempotencyKey # ""
    /\ calls[p].req.IdempotencyKey = calls[q].req.IdempotencyKey
    /\ calls[p].req.ChannelID = calls[q].req.ChannelID

\* C1: two creates in sequence with the same channel, the same non-empty
\* idempotency key and the same content, the database answering both, both
\* succeed and return messages with the same identifier and the same
\* creation and update times, and the store holds exactly one row with that
\* key.
C1_SequentialCreateIdempotent ==
    \A p, q \in Callers :
        (SameCreate(p, q) /\ calls[p].req.Content = calls[q].req.Content) =>
            /\ calls[p].err = "" /\ calls[q].err = ""
            /\ calls[p].ret # Nil /\ calls[q].ret # Nil
            /\ calls[p].ret[1].id = calls[q].ret[1].id
            /\ calls[p].ret[1].created_at = calls[q].ret[1].created_at
            /\ calls[p].ret[1].updated_at = calls[q].ret[1].updated_at
            /\ Len(RowsWithKey(calls[p].pool, calls[p].req.IdempotencyKey)) = 1

\* two finished creates with the same channel, key and content, the key
\* stored once
C1_Witness ==
    \E p, q \in Callers :
        /\ SameCreate(p, q)
        /\ calls[p].req.Content = calls[q].req.Content
        /\ calls[p].ret # Nil
        /\ Len(RowsWithKey(calls[p].pool, calls[p].req.IdempotencyKey)) = 1

\* C2: under every interleaving of concurrent creates no two rows of a
\* database share a non-null idempotency key, and once all calls have
\* finished every key carried by a call the database answered is borne by
\* exactly one row.
C2_OneRowPerKey ==
    /\ \A d \in Databases : \A i, j \in 1..Len(store[d]) :
          (i # j /\ store[d][i].idempotency_key # Nil) =>
              store[d][i].idempotency_key # store[d][j].idempotency_key
    /\ (\A p \in Callers : calls[p].pc = "done") =>
          \A p \in Callers :
              (calls[p].req.IdempotencyKey # "" /\ StoreAnswered(p)) =>
                  Len(RowsWithKey(calls[p].pool, calls[p].req.IdempotencyKey)) = 1

\* all calls finished, two of them raced on one key: both found no row, one
\* inserted and the other's INSERT was refused
C2_Witness ==
    /\ \A p \in Callers : calls[p].pc = "done"
    /\ \E p, q \in Callers :
          /\ SameCreate(p, q)
          /\ calls[p].ret # Nil
          /\ calls[q].err = "failed to create message: unique_violation"

\* C3: every one of the concurrent creates with the same non-empty key on
\* the same channel, the database answering each, returns without error,
\* with the same message identifier.
C3_AllCallersGetTheWinner ==
    \A p, q \in Callers :
        SameCreate(p, q) =>
            /\ calls[p].err = "" /\ calls[q].err = ""
            /\ calls[p].ret # Nil /\ calls[q].ret # Nil
            /\ calls[p].ret[1].id = calls[q].ret[1].id

IsDescending(seq) ==
    \A i, j \in 1..Len(seq) : i < j => seq[i].created_at >= seq[j].created_at

IsAscending(seq) ==
    \A i, j \in 1..Len(seq) : i < j => seq[i].created_at <= seq[j].created_at

NoRepeats(seq) == \A i, j \in 1..Len(seq) : i # j => seq[i] # seq[j]

DistinctTimes(rows) ==
    \A m, n \in rows : m # n => m.created_at # n.created_at

\* the pages of a finished walk, concatenated, are exactly the channel's
\* messages, newest first, none repeated and none missing
WalkComplete ==
    /\ {walk.acc[i] : i \in 1..Len(walk.acc)} = ChannelMessages(walk.channel)
    /\ NoRepeats(walk.acc)
    /\ IsDescending(walk.acc)

\* C4 as stated: following next_cursor from a plain request until has_more
\* is false yields exactly the channel's messages in descending order, for
\* every channel.
C4_WalkCompleteAnyTimes == walk.pc = "done" => WalkComplete

\* C4 amended: the same for a channel whose messages have pairwise distinct
\* creation times; and every walk ends within K + 1 page requests for a
\* channel of K messages.
C4_WalkCompleteDistinctTimes ==
    /\ (walk.pc = "done" /\ DistinctTimes(ChannelMessages(walk.channel)))
          => WalkComplete
    /\ walk.pc # "idle" =>
          walk.pages <= Cardinality(ChannelMessages(walk.channel)) + 1

\* a finished walk of several pages over several messages of distinct times
C4_Witness ==
    /\ walk.pc = "done"
    /\ walk.pages >= 2
    /\ Cardinality(ChannelMessages(walk.channel)) >= 2
    /\ DistinctTimes(ChannelMessages(walk.channel))
    /\ Len(walk.acc) = Cardinality(ChannelMessages(walk.channel))

\* the keys that the calls in progress and the last direct calls passed to
\* GetShard, each with the index of the pool it was given: the create
\* resolved its pool before its lookup and its insert, the history read
\* before its queries, and routePrev is any earlier direct call
RoutedKeys ==
    {<<route.key, route.index>>, <<routePrev.key, routePrev.index>>}
    \cup {<<calls[p].req.ChannelID, calls[p].pool>> :
             p \in {q \in Callers : calls[q].pc # "idle"}}
    \cup (IF reader.pc # "idle"
          THEN {<<reader.req.ChannelID, reader.pool>>} ELSE {})

\* C5: for the fixed shard count, any two GetShard calls with the same
\* non-empty key return the same shard index, in whatever state of the
\* store each call is made and whatever operations run between them: the
\* direct calls, the call of a create and the call of a history read agree
\* on every key they share.
C5_SameKeySameShard ==
    \A a, b \in RoutedKeys : (a[1] # <<>> /\ a[1] = b[1]) => a[2] = b[2]

\* one channel routed four times with the messages table changing between
\* the calls: by a create before its row was inserted, by a history read
\* that found that row as its since message, and by two direct calls
C5_Witness ==
    /\ calls[1].pc = "done"
    /\ calls[1].ret # Nil
    /\ ~calls[1].found
    /\ reader.pc = "done"
    /\ reader.err = ""
    /\ reader.req.ChannelID = calls[1].req.ChannelID
    /\ reader.req.SinceID = calls[1].ret[1].id
    /\ route.key = calls[1].req.ChannelID
    /\ routePrev.key = route.key

\* C6: the index GetShard computes lies in 0..N-1 for every key, also when
\* the hash has its top bit set, so a pool is always returned.
C6_ShardIndexInRange ==
    route.key # <<>> => (route.ok /\ route.index \in 0..(shards - 1))

\* a routed key whose hash has the top bit set
C6_Witness == route.key # <<>> /\ route.hash.hi >= 32768 /\ route.ok

\* a page was returned for the request
PageReturned == reader.pc = "done" /\ reader.err = ""

PageSet == {reader.messages[i] : i \in 1..Len(reader.messages)}

\* the request GetMessagesSince builds: a since timestamp and nothing else
IsSinceRequest(req) == req.Since # Nil /\ req.Cursor = <<>> /\ req.SinceID = <<>>

\* the messages of the request's channel created strictly after its since
LaterMessages(req) ==
    {m \in ChannelMessages(req.ChannelID) :
        Less64(req.Since[1], TimeOf(m.created_at))}

\* the limit the specification gives a request
EffectiveLimit(req) == IF req.Limit \in 1..100 THEN req.Limit ELSE 50

\* C7 as stated: a since request returns exactly the messages of the channel
\* created strictly after t, in ascending order, none omitted.
C7_SinceReturnsAllLater ==
    (PageReturned /\ IsSinceRequest(reader.req)) =>
        /\ PageSet = LaterMessages(reader.req)
        /\ NoRepeats(reader.messages)
        /\ IsAscending(reader.messages)

\* C7 amended: a since request returns, in ascending order, the first
\* min(n, limit) of the n messages of the channel created strictly after t
\* (limit being the effective limit): nothing at or before t, nothing of
\* another channel, and all n of them when n is at most the limit.
C7_SinceReturnsFirstLater ==
    (PageReturned /\ IsSinceRequest(reader.req)) =>
        LET later == LaterMessages(reader.req)
            n == Cardinality(later)
            limit == EffectiveLimit(reader.req)
        IN  /\ PageSet \subseteq later
            /\ NoRepeats(reader.messages)
            /\ IsAscending(reader.messages)
            /\ Len(reader.messages) = IF n < limit THEN n ELSE limit
            /\ \A m \in later \ PageSet : \A r \in PageSet :
                  r.created_at <= m.created_at
            /\ n <= limit => PageSet = later

\* a since page that returns a message while the channel holds one at or
\* before t and another channel holds one after t
C7_Witness ==
    /\ PageReturned
    /\ IsSinceRequest(reader.req)
    /\ Len(reader.messages) >= 1
    /\ \E m \in ChannelMessages(reader.req.ChannelID) :
          ~Less64(reader.req.Since[1], TimeOf(m.created_at))
    /\ \E c \in ChannelIDs \ {reader.req.ChannelID} :
          \E m \in ChannelMessages(c) :
              Less64(reader.req.Since[1], TimeOf(m.created_at))

\* C8: the limit in effect is the requested one when it lies in 1..100 and
\* 50 otherwise, and a returned page holds at most that many messages.
C8_LimitClamped ==
    PageReturned =>
        /\ reader.limit = EffectiveLimit(reader.req)
        /\ Len(reader.messages) <= EffectiveLimit(reader.req)

\* a page cut to a limit of 1 with more rows matching
C8_Witness ==
    /\ PageReturned
    /\ reader.req.Limit = 1
    /\ reader.hasMore
    /\ Len(reader.messages) = 1

\* C9: a page is ordered newest first when the request has neither since
\* nor sinceMessageID, and oldest first when it has one of them.
C9_PageOrder ==
    PageReturned =>
        IF reader.req.Since = Nil /\ reader.req.SinceID = <<>>
        THEN IsDescending(reader.messages)
        ELSE IsAscending(reader.messages)

\* a since page of two messages of different times, the older one first
C9_Witness ==
    /\ PageReturned
    /\ reader.req.Since # Nil
    /\ Len(reader.messages) >= 2
    /\ reader.messages[1].created_at < reader.messages[2].created_at

\* C10: a page produced for a request with a since timestamp or a
\* sinceMessageID carries no next_cursor.
C10_NoCursorWithSince ==
    (PageReturned /\ (reader.req.Since # Nil \/ reader.req.SinceID # <<>>)) =>
        reader.nextCursor = Nil

\* a since page with more rows matching and no cursor
C10_Witness ==
    /\ PageReturned
    /\ reader.req.Since # Nil
    /\ reader.hasMore
    /\ reader.nextCursor = Nil

\* a page answered to a request that carries no since filter
PlainPageReturned ==
    /\ PageReturned
    /\ reader.req.Since = Nil
    /\ reader.req.SinceID = <<>>

\* C11: for a history request with no since filter, next_cursor is present
\* exactly when has_more is true, and it is then the base64 of the decimal
\* string of the creation time of the last message of the page, which
\* decodes to that time.
C11_CursorIffHasMore ==
    PlainPageReturned =>
        /\ (reader.nextCursor # Nil) <=> reader.hasMore
        /\ reader.hasMore =>
             /\ reader.messages # <<>>
             /\ LET last == reader.messages[Len(reader.messages)]
                    decoded == decodeCursor(reader.nextCursor[1])
                IN  /\ reader.nextCursor[1] =
                           EncodeToString(FormatInt(TimeOf(last.created_at)))
                    /\ decoded.ok
                    /\ decoded.time = TimeOf(last.created_at)

\* a first page of limit 1 over a channel of two messages created at
\* t1 < t2: the page is the newer message, has_more is true and the cursor
\* encodes t2
C11_Witness ==
    /\ PlainPageReturned
    /\ reader.req.Cursor = <<>>
    /\ reader.limit = 1
    /\ Cardinality(ChannelMessages(reader.req.ChannelID)) = 2
    /\ DistinctTimes(ChannelMessages(reader.req.ChannelID))
    /\ reader.hasMore
    /\ Len(reader.messages) = 1
    /\ reader.messages[1].created_at = LastTime
    /\ reader.nextCursor = Ptr(encodeCursor(TimeOf(LastTime)))

\* the request names a since message that the requested channel does not hold
SinceAbsent(req) ==
    /\ req.SinceID # <<>>
    /\ \A m \in ChannelMessages(req.ChannelID) : m.id # req.SinceID

\* C12: a history request whose sinceMessageID names a message that is not
\* in the requested channel (absent, or of another channel) never returns a
\* page.  Repository.GetMessageHistory fails before its message query, and
\* when the database answers the lookup of the since message, with "since
\* message not found"; Service.GetMessageHistory fails, and when its checks
\* reach the since message and the database answers, with "since message
\* not found" around the no-rows error.
C12_UnknownSinceIDNotFound ==
    /\ (reader.pc # "idle" /\ SinceAbsent(reader.req)) =>
          /\ reader.pc = "done"
          /\ reader.err # ""
          /\ reader.failed # "since" => reader.err = "since message not found"
          /\ reader.messages = <<>>
    /\ (svc.pc = "done" /\ svc.op = "GetMessageHistory" /\ SinceAbsent(svc.hist)) =>
          /\ svc.page = Nil
          /\ svc.err # ""
          /\ (Len(svc.queries) = 3 /\ ~svc.down) =>
                svc.err = "since message not found: " \o ErrNoRows

\* Repository.GetMessageHistory was asked for channel c1 since message 1,
\* which is a message of channel c3
C12_Witness ==
    /\ reader.pc = "done"
    /\ reader.req.ChannelID = <<99, 49>>
    /\ reader.req.SinceID = <<1>>
    /\ reader.req.Cursor = <<>>
    /\ reader.req.Since = Nil
    /\ \E m \in ChannelMessages(<<99, 51>>) : m.id = <<1>>
    /\ ChannelMessages(<<99, 49>>) # {}
    /\ reader.err = "since message not found"

\* the request carries a cursor that is not base64, or not the base64 of a
\* decimal integer
CursorUndecodable(req) ==
    /\ req.Cursor # <<>>
    /\ LET data == DecodeString(req.Cursor)
       IN  ~data.ok \/ ~ParseInt(data.data).ok

InvalidCursorErrors ==
    {"invalid cursor: invalid cursor encoding",
     "invalid cursor: invalid cursor timestamp"}

\* the first two checks of ValidateMessageFilters pass for the request
PassesMembership(req) ==
    /\ req.ChannelID \in channels
    /\ <<req.ChannelID, req.UserID>> \in members

\* C13: a history request whose cursor does not decode never returns a
\* page: Repository.GetMessageHistory called directly fails with an invalid
\* cursor error, and so does Service.GetMessageHistory for a member of an
\* existing channel when the database answers its checks.
C13_UndecodableCursorRejected ==
    /\ (reader.pc # "idle" /\ CursorUndecodable(reader.req)) =>
          /\ reader.pc = "done"
          /\ reader.err \in InvalidCursorErrors
          /\ reader.messages = <<>>
    /\ (svc.pc = "done" /\ svc.op = "GetMessageHistory"
            /\ CursorUndecodable(svc.hist)) =>
          /\ svc.page = Nil
          /\ svc.err # ""
          /\ (PassesMembership(svc.hist) /\ ~svc.down) =>
                svc.err \in InvalidCursorErrors

\* Service.GetMessageHistory was asked by a member for a page at the cursor
\* "YQ==", the base64 of "a": it fails after the two checks before, with no
\* query on messages
C13_Witness ==
    /\ svc.pc = "done"
    /\ svc.op = "GetMessageHistory"
    /\ svc.hist.Cursor = <<89, 81, 61, 61>>
    /\ PassesMembership(svc.hist)
    /\ svc.queries = <<"GetChannel", "IsChannelMember">>
    /\ svc.err = "invalid cursor: invalid cursor timestamp"
    /\ svc.page = Nil
    /\ ChannelMessages(svc.hist.ChannelID) # {}

IsPrefix(s, t) == Len(s) <= Len(t) /\ s = SubSeq(t, 1, Len(s))

\* C14: Service.GetMessageHistory makes its checks in the order channel
\* exists, caller is a member, filter arguments well-formed, and returns the
\* first failure: a missing channel gives "channel not found" whoever asks
\* and whatever the filters, a non-member of an existing channel gives the
\* not-a-member error whatever the filters, and the query on messages runs
\* only after the three checks have passed.
C14_ChecksInOrder ==
    svc.op = "GetMessageHistory" =>
        LET req == svc.hist
        IN  /\ IsPrefix(svc.queries, <<"GetChannel", "IsChannelMember", "GetMessage">>)
            /\ (svc.pc = "done" /\ ~svc.down /\ req.ChannelID \notin channels) =>
                  /\ svc.err = "channel not found: " \o ErrNoRows
                  /\ svc.queries = <<"GetChannel">>
            /\ (svc.pc = "done" /\ ~svc.down /\ req.ChannelID \in channels
                    /\ <<req.ChannelID, req.UserID>> \notin members) =>
                  /\ svc.err = NotAMember
                  /\ svc.queries = <<"GetChannel", "IsChannelMember">>
            /\ (reader.pc # "idle" \/ svc.page # Nil) =>
                  /\ svc.pc = IF svc.page # Nil THEN "done" ELSE "query"
                  /\ PassesMembership(req)
                  /\ ~CursorUndecodable(req)
                  /\ ~SinceAbsent(req)
                  /\ Len(svc.queries) = IF req.SinceID # <<>> THEN 3 ELSE 2

\* a non-member asked for a page of a channel that does not exist, at a
\* cursor that does not decode: the answer is that the channel is not found
C14_Witness ==
    /\ svc.pc = "done"
    /\ svc.op = "GetMessageHistory"
    /\ svc.hist.ChannelID = AbsentChannelID
    /\ svc.hist.UserID = "u2"
    /\ svc.hist.Cursor = <<33, 33>>
    /\ ~svc.down
    /\ svc.queries = <<"GetChannel">>
    /\ svc.err = "channel not found: " \o ErrNoRows

\* the channel and the caller of the service call in progress
CallChannel ==
    IF svc.op = "SendMessage" THEN svc.send.ChannelID
    ELSE IF svc.op = "MarkMessageRead" THEN svc.read.ChannelID
    ELSE svc.hist.ChannelID

CallUser ==
    IF svc.op = "SendMessage" THEN svc.send.UserID
    ELSE IF svc.op = "MarkMessageRead" THEN svc.read.UserID
    ELSE svc.hist.UserID

\* a call is in progress whose caller, an identified user, has no
\* membership row for the channel named
NonMemberCall ==
    /\ svc.pc # "idle"
    /\ CallChannel # <<>>
    /\ CallUser # ""
    /\ <<CallChannel, CallUser>> \notin members

\* a call that has stored nothing, published nothing and returns no data
NoEffectNoData ==
    /\ svc.pc \in {"member", "done"}
    /\ svc.pc = "member" => svc.op = "GetMessageHistory"
    /\ calls[1].pc = "idle"
    /\ reader.pc = "idle"
    /\ svc.message = Nil
    /\ svc.page = Nil
    /\ svc.published = <<>>
    /\ svc.pc = "done" => svc.err # ""

\* C15 as stated: a caller who is not a member of the channel causes no
\* effect and receives no data, and every operation answers them with the
\* not-a-member error.
C15_NonMemberAlwaysNotAMember ==
    NonMemberCall =>
        /\ NoEffectNoData
        /\ (svc.pc = "done" /\ ~svc.down) => svc.err = NotAMember

\* C15, amended: a caller who is not a member of the channel causes no
\* effect and receives no data: SendMessage starts no create and publishes
\* no event, the history operations return no page, MarkMessageRead fails.
\* When the database answers, the error is the not-a-member error, except
\* that a history request for a channel that does not exist fails with
\* "channel not found".
C15_NonMemberNoEffect ==
    NonMemberCall =>
        /\ NoEffectNoData
        /\ (svc.pc = "done" /\ ~svc.down) =>
              svc.err = IF svc.op = "GetMessageHistory" /\ CallChannel \notin channels
                        THEN "channel not found: " \o ErrNoRows
                        ELSE NotAMember

\* SendMessage by u2, who is not a member of c1, into c1, which holds a
\* message of a member: not-a-member, nothing created, nothing published
C15_Witness ==
    /\ svc.pc = "done"
    /\ svc.op = "SendMessage"
    /\ svc.send.ChannelID = <<99, 49>>
    /\ svc.send.UserID = "u2"
    /\ ChannelMessages(<<99, 49>>) # {}
    /\ svc.err = NotAMember
    /\ svc.message = Nil
    /\ svc.published = <<>>
    /\ calls[1].pc = "idle"

\* the membership query of the call in progress was left unanswered
MembershipCheckFailed ==
    /\ svc.pc # "idle"
    /\ svc.down
    /\ svc.queries[Len(svc.queries)] = "IsChannelMember"

\* C16: when the membership query itself fails, SendMessage,
\* GetMessageHistory and MarkMessageRead return an error and do what they do
\* for a non-member: no create is started, no event is published, no page
\* and no message is returned, also when the caller is a member.
C16_FailedCheckIsNotMembership ==
    MembershipCheckFailed =>
        /\ svc.pc = "done"
        /\ svc.err = "failed to check channel membership: "
                        \o "failed to check channel membership: " \o StorageDown
        /\ NoEffectNoData

\* SendMessage by a member while the database does not answer
C16_Witness ==
    /\ MembershipCheckFailed
    /\ svc.op = "SendMessage"
    /\ <<svc.send.ChannelID, svc.send.UserID>> \in members
    /\ svc.pc = "done"
    /\ svc.err # ""
    /\ svc.message = Nil
    /\ svc.published = <<>>

\* C17: when the publication of the event fails after the message was
\* stored, SendMessage returns the stored message and no error, and the
\* message is in the store.
C17_PublishFailureSwallowed ==
    (svc.op = "SendMessage" /\ svc.publishErr # "") =>
        /\ svc.pc = "done"
        /\ svc.err = ""
        /\ svc.message # Nil
        /\ svc.message[1] \in ChannelMessages(svc.send.ChannelID)
        /\ svc.message[1].content = svc.send.Content

\* the broker did not take the event of a message just stored
C17_Witness ==
    /\ svc.op = "SendMessage"
    /\ svc.pc = "done"
    /\ svc.publishErr # ""
    /\ svc.published = <<>>
    /\ svc.err = ""
    /\ svc.message # Nil
    /\ svc.message[1] \in ChannelMessages(svc.send.ChannelID)

\* C18: a create request with an empty channel identifier, user identifier
\* or content is rejected as an invalid argument before any store access:
\* no membership query, no lookup by key, no insert, no message stored.
C18_EmptyFieldsRejectedFirst ==
    (svc.op = "SendMessage"
        /\ (svc.send.ChannelID = <<>> \/ svc.send.UserID = ""
               \/ svc.send.Content = "")) =>
        /\ svc.pc = "done"
        /\ svc.err = "invalid argument"
        /\ svc.queries = <<>>
        /\ calls[1].pc = "idle"
        /\ svc.message = Nil

\* the filter kinds a history request sets
FilterKinds(req) ==
    {k \in {"cursor", "since", "sinceMessageID"} :
        \/ k = "cursor" /\ req.Cursor # <<>>
        \/ k = "since" /\ req.Since # Nil
        \/ k = "sinceMessageID" /\ req.SinceID # <<>>}

\* C19: a history request that combines more than one of cursor, since
\* timestamp and sinceMessageID is rejected as an invalid argument before
\* any store access and is never answered with a page, neither by
\* Service.GetMessageHistory nor by Repository.GetMessageHistory.
C19_CombinedFiltersRejected ==
    /\ (svc.op = "GetMessageHistory" /\ Cardinality(FilterKinds(svc.hist)) > 1) =>
          /\ svc.pc = "done"
          /\ svc.err = "invalid argument"
          /\ svc.queries = <<>>
          /\ svc.page = Nil
    /\ (reader.pc # "idle" /\ Cardinality(FilterKinds(reader.req)) > 1) =>
          /\ reader.pc = "done"
          /\ reader.err # ""

\* the texts under which the service reports that a row is absent
NotFoundReports ==
    {label \o cause :
        label \in {"channel not found: ", "since message not found: ",
                   "message not found: "},
        cause \in {ErrNoRows,
                   "failed to get channel: " \o StorageDown,
                   "failed to get message: " \o StorageDown}}

\* the channel or message lookup of the call in progress was left unanswered
LookupFailed ==
    /\ svc.pc = "done"
    /\ svc.down
    /\ svc.queries[Len(svc.queries)] \in {"GetChannel", "GetMessage"}

\* C20: a storage failure is never reported as not-found: when the query
\* behind the channel lookup, the since-message lookup or the message lookup
\* of MarkMessageRead fails for another reason than an absent row, the
\* caller gets an error that is not a not-found report.
C20_StorageFailureNotReportedNotFound ==
    LookupFailed =>
        /\ svc.err # ""
        /\ svc.err \notin NotFoundReports

\* C21: GetMessage(messageID, channelID) returns a message only if a message
\* of that identifier is in that channel, and then that message; when the
\* identifier is unknown or is that of a message of another channel the
\* result is the no-rows error; the one pool consulted is the pool of the
\* channel.
C21_PointReadByIdAndChannel ==
    (svc.op = "GetMessage" /\ svc.pc = "done") =>
        LET req == svc.read
            held == {m \in ChannelMessages(req.ChannelID) : m.id = req.MessageID}
        IN  /\ svc.pools = {ShardIndex(req.ChannelID)}
            /\ svc.queries = <<"GetMessage">>
            /\ ~svc.down =>
                  IF held = {}
                  THEN svc.message = Nil /\ svc.err = ErrNoRows
                  ELSE /\ svc.err = ""
                       /\ svc.message # Nil
                       /\ svc.message[1] \in held
            /\ svc.down => svc.message = Nil /\ svc.err # ""

\* message 1 is a message of channel c3 and was asked for in channel c1,
\* which holds another message: no rows
C21_Witness ==
    /\ svc.op = "GetMessage"
    /\ svc.pc = "done"
    /\ ~svc.down
    /\ svc.read.MessageID = <<1>>
    /\ svc.read.ChannelID = <<99, 49>>
    /\ \E m \in ChannelMessages(<<99, 51>>) : m.id = <<1>>
    /\ ChannelMessages(<<99, 49>>) # {}
    /\ svc.message = Nil
    /\ svc.err = ErrNoRows

\* C22: the total of every returned page is the number of messages of the
\* channel, whatever the cursor, the since filter, the since message and the
\* limit of the request.
C22_TotalIsChannelCount ==
    PageReturned =>
        reader.total = Cardinality(ChannelMessages(reader.req.ChannelID))

\* a page of one message cut by limit 1 from a channel of two, with total 2
C22_Witness ==
    /\ PageReturned
    /\ reader.limit = 1
    /\ reader.req.Since # Nil
    /\ Len(reader.messages) = 1
    /\ Cardinality(ChannelMessages(reader.req.ChannelID)) = 2
    /\ reader.total = 2

\* C23: a stored message is never deleted and none of its fields ever
\* changes: every step of SendMessage, of the history operations, of
\* GetMessage and of MarkMessageRead leaves every row of the messages table
\* as it is, and the table only grows.
C23_StoredMessagesImmutable ==
    [][\A d \in Databases :
          /\ Len(store[d]) <= Len(store'[d])
          /\ SubSeq(store'[d], 1, Len(store[d])) = store[d]]_vars

\* MarkMessageRead has succeeded on a stored message while the table holds
\* a later message too
C23_Witness ==
    /\ svc.op = "MarkMessageRead"
    /\ svc.pc = "done"
    /\ svc.err = ""
    /\ \E m \in ChannelMessages(svc.read.ChannelID) : m.id = svc.read.MessageID
    /\ Len(store[PoolDatabase(0)]) >= 2

\* C24: every store access of the message operations is made on the pool
\* that the channel identifier of the request resolves to: the lookup by
\* key and the insert of a create, the page and count queries of a history
\* read, and the membership, channel and message queries of the service;
\* every stored message is in the database of the pool of its channel.
C24_AccessesOnChannelShard ==
    /\ \A p \in Callers :
          calls[p].pc # "idle" => calls[p].pool = ShardIndex(calls[p].req.ChannelID)
    /\ reader.pc # "idle" => reader.pool = ShardIndex(reader.req.ChannelID)
    /\ svc.pc # "idle" =>
          svc.pools = {ShardIndex(IF svc.op = "SendMessage" THEN svc.send.ChannelID
                                  ELSE IF svc.op = "GetMessageHistory"
                                  THEN svc.hist.ChannelID
                                  ELSE svc.read.ChannelID)}
    /\ \A d \in Databases : \A i \in 1..Len(store[d]) :
          d = PoolDatabase(ShardIndex(store[d][i].channel_id))

\* a page of channel c1 read on pool 2 while the service has checked the
\* membership and the channel on that pool, with messages of c3 stored too
C24_Witness ==
    /\ svc.op = "GetMessageHistory"
    /\ svc.pc = "query"
    /\ svc.hist.ChannelID = <<99, 49>>
    /\ svc.pools = {2}
    /\ reader.pc = "done"
    /\ reader.pool = 2
    /\ reader.messages # <<>>
    /\ ChannelMessages(<<99, 51>>) # {}

\* C25: an operation on a channel changes only the shard the channel
\* resolves to: a step that changes the messages table, made by the create
\* that is at its insert, leaves the table that every other pool reads as it
\* was.
C25_OtherShardsUnchanged ==
    [][\A i \in 0..(ShardCount - 1) :
          (calls[1].pc = "insert" /\ i # calls[1].pool) =>
              store'[PoolDatabase(i)] = store[PoolDatabase(i)]]_vars

\* C26: every pool that was opened is closed on every exit path: when
\* NewPostgreDB has returned an error, and when the process has left main,
\* no pool is left open.
C26_PoolsClosedOnEveryExit ==
    boot.pc \in {"failed", "exited"} => \A k \in PoolIndices : boot.pools[k] # "open"

\* a history read during which an answer of the database was a failure
HistoryReadFailed == reader.pc = "done" /\ reader.failed # ""

\* C27: a history read never downgrades a failure to a partial or empty
\* success: when the message query, the scan or the iteration of its rows, or
\* the total-count query fails, GetMessageHistory returns an error and no page.
C27_FailureIsNeverAPage ==
    HistoryReadFailed =>
        /\ reader.err # ""
        /\ reader.messages = <<>>
        /\ ~reader.hasMore
        /\ reader.nextCursor = Nil
        /\ reader.total = 0

\* the count query failed after a page with a message on it and a cursor to
\* the next page had been built
C27_Witness ==
    /\ HistoryReadFailed
    /\ reader.failed = "total"
    /\ reader.req.Limit = 1
    /\ Cardinality(ChannelMessages(reader.req.ChannelID)) >= 2
    /\ reader.err = "failed to get total count: connection refused"

\* the messages of the request's channel that pass every filter the request
\* carries: created before the cursor's time, after the since time, after the
\* creation time of the since message
MatchingMessages(req) ==
    {m \in ChannelMessages(req.ChannelID) :
        /\ req.Cursor # <<>> =>
             Less64(TimeOf(m.created_at), decodeCursor(req.Cursor).time)
        /\ req.Since # Nil => Less64(req.Since[1], TimeOf(m.created_at))
        /\ req.SinceID # <<>> =>
             \E since \in ChannelMessages(req.ChannelID) :
                 since.id = req.SinceID /\ m.created_at > since.created_at}

\* m is not after n in the order of the request: oldest first with a since
\* filter, newest first without
NotAfter(req, m, n) ==
    IF req.Since # Nil \/ req.SinceID # <<>>
    THEN m.created_at <= n.created_at
    ELSE m.created_at >= n.created_at

\* C28: has_more is true exactly when the number of messages matching the
\* request exceeds the effective limit; the page then holds exactly the first
\* 'limit' matching messages in the request's order (the extra row fetched is
\* not on it), and otherwise it holds all the matching messages.
C28_HasMoreIffOverLimit ==
    PageReturned =>
        LET req == reader.req
            matching == MatchingMessages(req)
            limit == EffectiveLimit(req)
        IN  /\ reader.hasMore <=> Cardinality(matching) > limit
            /\ PageSet \subseteq matching
            /\ NoRepeats(reader.messages)
            /\ \A i, j \in 1..Len(reader.messages) :
                   i < j => NotAfter(req, reader.messages[i], reader.messages[j])
            /\ \A m \in PageSet, n \in matching \ PageSet : NotAfter(req, m, n)
            /\ Len(reader.messages) =
                   IF Cardinality(matching) > limit THEN limit
                   ELSE Cardinality(matching)

\* a since request with limit 1 met two later messages of different times
\* and returned the older of them alone
C28_Witness ==
    /\ PageReturned
    /\ reader.req.Limit = 1
    /\ reader.req.Since # Nil
    /\ Cardinality(MatchingMessages(reader.req)) = 2
    /\ DistinctTimes(MatchingMessages(reader.req))
    /\ reader.hasMore
    /\ Len(reader.messages) = 1

\* the messages of the walked channel that existed when the walk started,
\* and those created since
ExistingAtStart ==
    {m \in ChannelMessages(walk.channel) : m.id[1] <= walk.rows}

CreatedDuringWalk == ChannelMessages(walk.channel) \ ExistingAtStart

\* C29: pagination is complete under concurrent inserts.  When the creation
\* times of the channel's messages are pairwise distinct and every message
\* created during the traversal has a creation time later than all messages
\* existing at its start, a finished plain traversal has returned every
\* message existing at its start exactly once, however the creates and the
\* page requests interleave.
C29_CompleteUnderInserts ==
    (/\ walk.pc = "done"
     /\ DistinctTimes(ChannelMessages(walk.channel))
     /\ \A m \in CreatedDuringWalk, n \in ExistingAtStart :
            m.created_at > n.created_at)
    => \A n \in ExistingAtStart :
          Cardinality({i \in 1..Len(walk.acc) : walk.acc[i] = n}) = 1

\* a finished walk of one message a page over a channel that held two
\* messages at the start and received a third, later than both, after the
\* first page was read: the new message is newer than every message of
\* the channel and is on no page, so the first page request was answered
\* before its insert, and the second page request was made with the
\* cursor of the first page
C29_Witness ==
    /\ walk.pc = "done"
    /\ walk.limit = 1
    /\ walk.pages >= 2
    /\ Cardinality(ExistingAtStart) >= 2
    /\ CreatedDuringWalk # {}
    /\ DistinctTimes(ChannelMessages(walk.channel))
    /\ \A m \in CreatedDuringWalk, n \in ExistingAtStart :
           m.created_at > n.created_at
    /\ \A i \in 1..Len(walk.acc) : walk.acc[i] \notin CreatedDuringWalk

\* C30: a message returned by a successful create matches the request: its
\* channel identifier, author and content are those of the request, also when
\* the idempotency key of the request was already used by a message of a
\* different channel or author on the same shard.
C30_CreatedMatchesRequest ==
    \A p \in Callers :
        (calls[p].pc = "done" /\ calls[p].err = "" /\ calls[p].ret # Nil) =>
            /\ calls[p].ret[1].channel_id = calls[p].req.ChannelID
            /\ calls[p].ret[1].user_id = calls[p].req.UserID
            /\ calls[p].ret[1].content = calls[p].req.Content

\* C31: each stored message is published at most once: a SendMessage call to
\* which CreateMessage returned an already stored message, its idempotency
\* key having been seen before, publishes no event for that message; and the
\* event of a call is published on the topic of the channel named in the
\* request of that call.
C31_PublishedOnceOnRequestTopic ==
    [][(svc.pc = "create" /\ calls[1].pc = "done" /\ svc'.pc = "done") =>
          /\ calls[1].found => svc'.published = <<>>
          /\ \A i \in 1..Len(svc'.published) :
                 svc'.published[i].topic = svc.send.ChannelID]_vars

\* C32: in every page GetMessageHistory returns, total is at least the number
\* of messages of the page, whatever creates run between the page query and
\* the separate count query.
C32_TotalCoversPage ==
    PageReturned => reader.total >= Len(reader.messages)

\* a first page that held every message of the channel when it was read, and
\* a total that counts a message created before the count query
C32_Witness ==
    /\ PageReturned
    /\ reader.req.Cursor = <<>>
    /\ ~reader.hasMore
    /\ reader.messages # <<>>
    /\ reader.total > Len(reader.messages)
    /\ reader.total = Cardinality(ChannelMessages(reader.req.ChannelID))

\* a CreateMessage call without an idempotency key that has returned, the
\* database having answered its INSERT
KeylessDone(p) ==
    /\ calls[p].pc = "done"
    /\ calls[p].req.IdempotencyKey = ""
    /\ StoreAnswered(p)

\* C33: a create without an idempotency key makes no duplicate check and,
\* the database answering, always inserts a new row with a null key and a fresh identifier: calls with
\* identical arguments store as many distinct messages, rows with a null key
\* never conflict, and no two rows share an identifier.
C33_KeylessCreateAlwaysInserts ==
    /\ \A p \in Callers :
          KeylessDone(p) =>
              /\ calls[p].err = ""
              /\ ~calls[p].found
              /\ calls[p].ret # Nil
              /\ calls[p].ret[1].idempotency_key = Nil
              /\ \E i \in 1..Len(Table(calls[p].pool)) :
                     Table(calls[p].pool)[i] = calls[p].ret[1]
    /\ \A p, q \in Callers :
          (p # q /\ KeylessDone(p) /\ KeylessDone(q)) =>
              calls[p].ret[1].id # calls[q].ret[1].id
    /\ \A d \in Databases : \A i, j \in 1..Len(store[d]) :
          i # j => store[d][i].id # store[d][j].id

\* two calls with the same arguments and no key, each with a row of its own
C33_Witness ==
    \E p, q \in Callers :
        /\ p # q
        /\ KeylessDone(p)
        /\ KeylessDone(q)
        /\ calls[p].req = calls[q].req
        /\ calls[p].ret # calls[q].ret
        /\ Cardinality({i \in 1..Len(Table(calls[p].pool)) :
                           Table(calls[p].pool)[i].idempotency_key = Nil}) >= 2

\* a step of a MarkMessageRead call, and the step that ends the call
MarkStep == svc' # svc /\ svc'.op = "MarkMessageRead"

MarkReturns == MarkStep /\ svc'.pc = "done"

\* the caller of the call is a member of its channel, and its message is a
\* stored message of that channel
MarkedByMember == <<svc'.read.ChannelID, svc'.read.UserID>> \in members

MarkedExists ==
    \E m \in ChannelMessages(svc'.read.ChannelID) : m.id = svc'.read.MessageID

\* the membership query comes first, the lookup of the message only after it
\* answered that the caller is a member; nothing stored changes
MarkOrderAndFrame ==
    /\ store' = store
    /\ members' = members
    /\ channels' = channels
    /\ svc'.queries \in {<<"IsChannelMember">>, <<"IsChannelMember", "GetMessage">>}
    /\ (MarkReturns /\ svc'.queries = <<"IsChannelMember", "GetMessage">>) =>
           MarkedByMember

\* C34 as stated: MarkMessageRead succeeds exactly when the caller is a member
\* of the channel and the message exists in that channel; membership is
\* checked before the message is looked up, and no outcome changes the stored
\* messages or the memberships.
C34_MarkSucceedsIffMemberAndExists ==
    [][MarkStep =>
          /\ MarkOrderAndFrame
          /\ MarkReturns => (svc'.err = "" <=> (MarkedByMember /\ MarkedExists))]_vars

\* C34 amended: the same when the store answers the queries of the call; a
\* call whose membership query or message lookup the store fails to answer
\* returns an error, whoever the caller and whatever the message.
C34_MarkSucceedsIffAnswered ==
    [][MarkStep =>
          /\ MarkOrderAndFrame
          /\ MarkReturns =>
                /\ svc'.err = "" <=>
                      (MarkedByMember /\ MarkedExists /\ ~svc'.down)
                /\ svc'.down => svc'.err # ""]_vars

\* a member has marked a stored message of the channel as read
C34_Witness ==
    /\ svc.op = "MarkMessageRead"
    /\ svc.pc = "done"
    /\ svc.err = ""
    /\ svc.queries = <<"IsChannelMember", "GetMessage">>
    /\ <<svc.read.ChannelID, svc.read.UserID>> \in members
    /\ \E m \in ChannelMessages(svc.read.ChannelID) : m.id = svc.read.MessageID
    /\ Cardinality(ChannelMessages(svc.read.ChannelID)) >= 1

\* C35: a message created from a request with an empty message type is
\* stored and returned with the message type "text"; a message type that is
\* not empty is stored and returned unchanged.
C35_MessageTypeDefaultsToText ==
    \A p \in Callers :
        (calls[p].pc = "done" /\ calls[p].err = "" /\ ~calls[p].found) =>
            /\ calls[p].ret # Nil
            /\ calls[p].ret[1].message_type =
                   (IF calls[p].req.MessageType = "" THEN "text"
                    ELSE calls[p].req.MessageType)
            /\ \E i \in 1..Len(Table(calls[p].pool)) :
                   Table(calls[p].pool)[i] = calls[p].ret[1]

\* a message created without a type is stored beside one created as "image"
C35_Witness ==
    /\ calls[1].pc = "done"
    /\ calls[1].err = ""
    /\ ~calls[1].found
    /\ calls[1].req.MessageType = ""
    /\ calls[1].ret[1].message_type = "text"
    /\ \E i \in 1..Len(Table(calls[1].pool)) :
           Table(calls[1].pool)[i].message_type = "image"

\* C36: Client.Close of the Redis client closes the connection and returns,
\* so the deferred redisClient.Close() of the chat-service main completes at
\* shutdown: a main that returns after server.Shutdown runs its deferred
\* calls to the end and never dies in one of them.
C36_RedisCloseCompletes ==
    boot.pc = "exited" =>
        /\ boot.exit # "stack overflow"
        /\ boot.exit \notin {"Failed to initialize database",
                              "Failed to initialize Redis",
                              "Failed to initialize service discovery",
                              "Failed to register service",
                              "Failed to start server",
                              "Server forced to shutdown"} =>
              boot.exit = "return"

\* a GetInstance call that has read the counter, and one that has returned
\* an instance
HasPicked(p) == lb.calls[p].pc = "increment" \/ lb.calls[p].instance # Nil

HasReturnedInstance(p) == lb.calls[p].pc = "done" /\ lb.calls[p].err = ""

\* C37: GetInstance is round-robin and safe under concurrency.  The call that
\* reads the counter value i of a list of n >= 1 instances returns the
\* instance at position i mod n of that list, which is the discovered list
\* while it is unchanged; the index lies within the list; no two calls read
\* the same counter value, each read advancing the counter by one; and a call
\* for an unknown or empty service returns an error and no instance, and
\* leaves the counter as it is.
C37_RoundRobinUnderConcurrency ==
    /\ [](\A p \in Callers :
            /\ HasPicked(p) =>
                  /\ Len(lb.calls[p].instances) >= 1
                  /\ lb.calls[p].index =
                         lb.calls[p].read % Len(lb.calls[p].instances)
                  /\ lb.calls[p].index \in 0..(Len(lb.calls[p].instances) - 1)
                  /\ \A q \in Callers \ {p} :
                         HasPicked(q) => lb.calls[q].read # lb.calls[p].read
            /\ HasReturnedInstance(p) =>
                  /\ lb.calls[p].read < lb.counter
                  /\ lb.calls[p].instance =
                         Ptr(lb.calls[p].instances[lb.calls[p].index + 1])
                  /\ discovery[lb.calls[p].serviceName] = Ptr(lb.calls[p].instances)
                        => lb.calls[p].instance =
                             Ptr(Discover(lb.calls[p].serviceName).instances[
                                    (lb.calls[p].read
                                       % Len(Discover(lb.calls[p].serviceName).instances))
                                    + 1])
            /\ (lb.calls[p].pc = "done" /\ lb.calls[p].err # "") =>
                  lb.calls[p].instance = Nil)
    /\ [][(lb'.counter # lb.counter
            \/ \E p \in Callers : lb.calls[p].pc # "done" /\ lb'.calls[p].pc = "done") =>
             \E p \in Callers :
                 /\ lb.calls[p].pc # "done"
                 /\ lb'.calls[p].pc = "done"
                 /\ IF lb'.calls[p].err = ""
                    THEN lb'.counter = lb.counter + 1 /\ lb'.calls[p].read = lb.counter
                    ELSE lb'.counter = lb.counter /\ lb.calls[p].pc = "idle"]_vars

\* the counter has gone round a list of two instances: one call was given
\* the second instance for the value 1, another the first for the value 2,
\* while a third value has been read by no call yet
C37_Witness ==
    \E p, q \in Callers :
        /\ HasReturnedInstance(p)
        /\ HasReturnedInstance(q)
        /\ Len(lb.calls[p].instances) = 2
        /\ lb.calls[q].instances = lb.calls[p].instances
        /\ lb.calls[p].read = 1 /\ lb.calls[p].index = 1
        /\ lb.calls[q].read = 2 /\ lb.calls[q].index = 0
        /\ lb.calls[p].instance # lb.calls[q].instance
        /\ lb.counter = 3

\* the results stored so far by the goroutines of the Check call
ResultsSoFar ==
    {name \in CheckNames : checker.call.results[name] # NoResult}

\* C38: Check runs every registered check in a goroutine of its own and
\* returns only after all of them have finished; the response holds exactly
\* one result for every check that was registered when the call started, and
\* its status is healthy exactly when each of those checks returned no error,
\* unhealthy as soon as one of them has failed, in whatever order the checks
\* finish and whatever checks are added or removed meanwhile.
C38_CheckWaitsForAllChecks ==
    /\ checker.call.pc = "wait" =>
          /\ ResultsSoFar = checker.call.checks \ checker.call.pending
          /\ checker.call.overallStatus = StatusUnhealthy <=>
                \E name \in ResultsSoFar : checker.call.results[name].Error # ""
    /\ checker.call.pc = "done" =>
          LET response == checker.call.response[1]
          IN  /\ checker.call.pending = {}
              /\ {c.Name : c \in response.Checks} = checker.call.checks
              /\ Cardinality(response.Checks) = Cardinality(checker.call.checks)
              /\ \A c \in response.Checks :
                     /\ c.Status \in {StatusHealthy, StatusUnhealthy}
                     /\ c.Status = StatusHealthy <=> c.Error = ""
              /\ response.Status \in {StatusHealthy, StatusUnhealthy}
              /\ response.Status = StatusHealthy <=>
                     \A c \in response.Checks : c.Error = ""

\* a response with the results of three checks, one of them failed, returned
\* after one of the checks had been removed from the checker
C38_Witness ==
    /\ checker.call.pc = "done"
    /\ Cardinality(checker.call.checks) = 3
    /\ checker.checks # checker.call.checks
    /\ Cardinality(checker.call.response[1].Checks) = 3
    /\ checker.call.response[1].Status = StatusUnhealthy
    /\ Cardinality({c \in checker.call.response[1].Checks : c.Error # ""}) = 1

\* t is the time of a stored message: a whole number of microseconds
IsCreationTime(t) == UnixNano(Timestamptz(t)) = t

\* the instant of a stored timestamp as its exact count of nanoseconds, a
\* sign and a magnitude below 2^64, also where the count leaves the int64
InstantOf(timestamp) ==
    [neg |-> timestamp.neg, mag |-> MulAdd(timestamp.mag, 1000, 0).mag]

\* C39: the cursor codec round-trips: for every time t that is a 64-bit
\* count of Unix nanoseconds, decodeCursor(encodeCursor(t)) succeeds and
\* gives the instant t; and when t is the creation time of the last message
\* of a page, created_at < cursor holds for exactly the rows created before
\* t: a row created at t or after it is excluded.
C39_CursorRoundTrips ==
    /\ codec.pc \in {"decoded", "compared"} =>
          /\ codec.decoded.ok
          /\ codec.decoded.err = ""
          /\ codec.decoded.time = codec.t
    /\ (codec.pc = "compared" /\ IsCreationTime(codec.t)) =>
          LET created == InstantOf(codec.created)
          IN  /\ codec.matches <=> Less64(created, codec.t)
              /\ created = codec.t => ~codec.matches
              /\ Less64(codec.t, created) => ~codec.matches
              /\ created # codec.t =>
                    (Less64(created, codec.t) <=> ~Less64(codec.t, created))

\* the cursor of a time of nineteen digits, and a row created less than a
\* second before it, which the next page includes
C39_Witness ==
    /\ codec.pc = "compared"
    /\ ~codec.t.neg
    /\ IsCreationTime(codec.t)
    /\ Len(FormatInt(codec.t)) = 19
    /\ Len(codec.cursor) = 28
    /\ InstantOf(codec.created) # codec.t
    /\ InstantOf(codec.created).mag[4] = codec.t.mag[4]
    /\ InstantOf(codec.created).mag[3] = codec.t.mag[3]
    /\ codec.matches

\* C40: when the shard count is 1, GetShard returns the single pool, index
\* 0, for every key, and computes no hash; with more shards it hashes the key.
C40_SingleShardFastPath ==
    route.key # <<>> =>
        /\ shards = 1 =>
              /\ route.ok
              /\ route.index = 0
              /\ ~route.hashed
              /\ route.hash = FnvOffset32
        /\ shards # 1 => route.hashed /\ route.hash = Fnv32a(route.key)

\* with one shard, a key routed to pool 0 that three shards route elsewhere
C40_Witness ==
    /\ shards = 1
    /\ route.key # <<>>
    /\ route.index = 0
    /\ GoRem(IntOfUint32(Fnv32a(route.key)), ShardCount) # 0

====
